---- MODULE Spec2Model ----
(***************************************************************************)
(* Model of etielle's traversal-and-merge executor (etielle/executor.py,   *)
(* etielle/main.py): the path resolver, the traversal engine producing     *)
(* Contexts, the transform primitives, and run_mapping with its row index, *)
(* its per-table instance state (builder, shadow, policies) and the final  *)
(* materialisation of the tables.                                          *)
(***************************************************************************)
EXTENDS Integers, Sequences, FiniteSets, TLC

(***************************************************************************)
(* JSON values.  Every value is a record of one shape so that values of    *)
(* different Python types can sit in one set or tuple:                     *)
(*   t  = "null" | "int" | "str" | "list" | "map"                          *)
(*   n  = the integer of an int, s = the text of a str,                    *)
(*   c  = the elements of a list / the values of a map (insertion order),  *)
(*   ks = the keys of a map (insertion order, pairwise different).         *)
(***************************************************************************)
Null == [t |-> "null", n |-> 0, s |-> "", c |-> <<>>, ks |-> <<>>]

I(n) == [t |-> "int", n |-> n, s |-> "", c |-> <<>>, ks |-> <<>>]

S(s) == [t |-> "str", n |-> 0, s |-> s, c |-> <<>>, ks |-> <<>>]

L(elems) == [t |-> "list", n |-> 0, s |-> "", c |-> elems, ks |-> <<>>]

M(keys, vals) == [t |-> "map", n |-> 0, s |-> "", c |-> vals, ks |-> keys]

IsMapping(v) == v.t = "map"

\* isinstance(v, Sequence) and not isinstance(v, (str, bytes))
IsSequence(v) == v.t = "list"

\* Python's str() on a mapping key: a str is itself, an int is its decimal
\* numeral (the model's ints are 0..99).
Digits == <<"0", "1", "2", "3", "4", "5", "6", "7", "8", "9">>

Str(k) ==
  IF k.t = "str" THEN k.s
  ELSE IF k.t = "int"
       THEN IF k.n < 10 THEN Digits[k.n + 1]
            ELSE Digits[(k.n \div 10) + 1] \o Digits[(k.n % 10) + 1]
       ELSE "None"

\* dict.get(key, None) on a mapping value
MapGet(m, k) ==
  IF \E i \in 1..Len(m.ks) : m.ks[i] = k
  THEN m.c[CHOOSE i \in 1..Len(m.ks) : m.ks[i] = k]
  ELSE Null

\* One step of the resolver loops: descend from value by one segment.
Descend(value, segment) ==
  IF IsMapping(value) THEN MapGet(value, segment)
  ELSE IF IsSequence(value)
       THEN IF segment.t = "int" /\ 0 <= segment.n /\ segment.n < Len(value.c)
            THEN value.c[segment.n + 1]
            ELSE Null
       ELSE Null

RECURSIVE _resolve_path(_, _)
_resolve_path(obj, path) ==
  IF path = <<>> THEN obj
  ELSE _resolve_path(Descend(obj, Head(path)), Tail(path))

(***************************************************************************)
(* Contexts.  parent is <<>> (None) or <<ctx>>; key and index are Null     *)
(* (None) or a str / int value.  slots is always {} and is left out.       *)
(***************************************************************************)
Context(root, node, path, parent, key, index) ==
  [root |-> root, node |-> node, path |-> path, parent |-> parent,
   key |-> key, index |-> index]

\* _iter_nodes yields exactly one (base_ctx, container) pair
_iter_nodes(root, path) ==
  LET container == _resolve_path(root, path)
  IN  [base_ctx |-> Context(root, container, path, <<>>, Null, Null),
       container |-> container]

\* Variant: list positions counted from 1.
yield_from_container_OneBased(root, parent_ctx, container, iterate_items) ==
  IF iterate_items
  THEN IF IsMapping(container)
       THEN [i \in 1..Len(container.ks) |->
               Context(root, container.c[i],
                       Append(parent_ctx.path, S(Str(container.ks[i]))),
                       <<parent_ctx>>, S(Str(container.ks[i])), Null)]
       ELSE <<>>
  ELSE IF IsSequence(container)
       THEN [i \in 1..Len(container.c) |->
               Context(root, container.c[i],
                       Append(parent_ctx.path, I(i)),
                       <<parent_ctx>>, Null, I(i))]
       ELSE <<Context(root, container, parent_ctx.path, <<parent_ctx>>, Null, Null)>>

\* Variant: mapping keys are used as they are, without str().
yield_from_container_RawKey(root, parent_ctx, container, iterate_items) ==
  IF iterate_items
  THEN IF IsMapping(container)
       THEN [i \in 1..Len(container.ks) |->
               Context(root, container.c[i],
                       Append(parent_ctx.path, container.ks[i]),
                       <<parent_ctx>>, container.ks[i], Null)]
       ELSE <<>>
  ELSE IF IsSequence(container)
       THEN [i \in 1..Len(container.c) |->
               Context(root, container.c[i],
                       Append(parent_ctx.path, I(i - 1)),
                       <<parent_ctx>>, Null, I(i - 1))]
       ELSE <<Context(root, container, parent_ctx.path, <<parent_ctx>>, Null, Null)>>

\* Variant: a value that is not a list yields nothing in list mode.
yield_from_container_NoFallback(root, parent_ctx, container, iterate_items) ==
  IF iterate_items
  THEN IF IsMapping(container)
       THEN [i \in 1..Len(container.ks) |->
               Context(root, container.c[i],
                       Append(parent_ctx.path, S(Str(container.ks[i]))),
                       <<parent_ctx>>, S(Str(container.ks[i])), Null)]
       ELSE <<>>
  ELSE IF IsSequence(container)
       THEN [i \in 1..Len(container.c) |->
               Context(root, container.c[i],
                       Append(parent_ctx.path, I(i - 1)),
                       <<parent_ctx>>, Null, I(i - 1))]
       ELSE <<>>

yield_from_container(root, parent_ctx, container, iterate_items) ==
  IF iterate_items
  THEN IF IsMapping(container)
       THEN [i \in 1..Len(container.ks) |->
               Context(root, container.c[i],
                       Append(parent_ctx.path, S(Str(container.ks[i]))),
                       <<parent_ctx>>, S(Str(container.ks[i])), Null)]
       ELSE <<>>
  ELSE IF IsSequence(container)
       THEN [i \in 1..Len(container.c) |->
               Context(root, container.c[i],
                       Append(parent_ctx.path, I(i - 1)),
                       <<parent_ctx>>, Null, I(i - 1))]
       ELSE <<Context(root, container, parent_ctx.path, <<parent_ctx>>, Null, Null)>>

\* bool(spec.inner_iterate_items): the field is None, True or False
PyBool(x) == x = "True"

RECURSIVE FlattenSeq(_)
FlattenSeq(ss) ==
  IF ss = <<>> THEN <<>> ELSE Head(ss) \o FlattenSeq(Tail(ss))

\* Variant: with an inner path the outer Contexts are yielded as well.
_iter_traversal_nodes_OuterToo(root, spec) ==
  LET base  == _iter_nodes(root, spec.path)
      outer == yield_from_container(root, base.base_ctx, base.container, spec.iterate_items)
  IN  IF spec.inner_path = <<>>
      THEN outer
      ELSE FlattenSeq([j \in 1..Len(outer) |->
             <<outer[j]>> \o
             yield_from_container(root, outer[j],
                                  _resolve_path(outer[j].node, spec.inner_path),
                                  PyBool(spec.inner_iterate_items))])

_iter_traversal_nodes(root, spec) ==
  LET base  == _iter_nodes(root, spec.path)
      outer == yield_from_container(root, base.base_ctx, base.container, spec.iterate_items)
  IN  IF spec.inner_path = <<>>
      THEN outer
      ELSE FlattenSeq([j \in 1..Len(outer) |->
             yield_from_container(root, outer[j],
                                  _resolve_path(outer[j].node, spec.inner_path),
                                  PyBool(spec.inner_iterate_items))])

(***************************************************************************)
(* Transform library (Context -> value).  A transform is a record          *)
(* [op, path, v]: get(path), get_from_parent(path), literal(v), key(),     *)
(* index().                                                                *)
(***************************************************************************)
get(path) == [op |-> "get", path |-> path, v |-> Null]

get_from_parent(path) == [op |-> "get_from_parent", path |-> path, v |-> Null]

literal(v) == [op |-> "literal", path |-> <<>>, v |-> v]

key == [op |-> "key", path |-> <<>>, v |-> Null]

index == [op |-> "index", path |-> <<>>, v |-> Null]

\* Calling a transform on a Context
Apply(tr, ctx) ==
  IF tr.op = "get" THEN _resolve_path(ctx.node, tr.path)
  ELSE IF tr.op = "get_from_parent"
       THEN _resolve_path(IF ctx.parent = <<>> THEN Null ELSE ctx.parent[1].node, tr.path)
  ELSE IF tr.op = "literal" THEN tr.v
  ELSE IF tr.op = "key" THEN ctx.key
  ELSE ctx.index

(***************************************************************************)
(* Declarative spec types.  An emit is [type, table, fields, join_keys,    *)
(* builder, policies]; a TableEmit has no builder ("") and no policies.    *)
(* A Python dict keyed by strings is a function on a set of strings; the   *)
(* empty dict is <<>>.                                                     *)
(***************************************************************************)
Field(name, transform) == [name |-> name, transform |-> transform]

TableEmit(table, fields, join_keys) ==
  [type |-> "TableEmit", table |-> table, fields |-> fields,
   join_keys |-> join_keys, builder |-> "", policies |-> <<>>]

InstanceEmit(table, fields, join_keys, builder, policies) ==
  [type |-> "InstanceEmit", table |-> table, fields |-> fields,
   join_keys |-> join_keys, builder |-> builder, policies |-> policies]

TraversalSpec(path, iterate_items, inner_path, inner_iterate_items, emits) ==
  [path |-> path, iterate_items |-> iterate_items, inner_path |-> inner_path,
   inner_iterate_items |-> inner_iterate_items, emits |-> emits]

MappingSpec(traversals) == [traversals |-> traversals]

(***************************************************************************)
(* Python dict helpers.  A dict keyed by strings (a row, a policy set, the *)
(* table dicts) is a function; a dict keyed by composite keys keeps its    *)
(* insertion order, which decides the order of the result lists, and is a  *)
(* sequence of [k, v] entries with pairwise different k.                   *)
(***************************************************************************)
DictHas(d, k) == k \in DOMAIN d

DictSet(d, k, v) == [x \in (DOMAIN d) \cup {k} |-> IF x = k THEN v ELSE d[x]]

\* d.update(e)
DictUpdate(d, e) ==
  [x \in (DOMAIN d) \cup (DOMAIN e) |-> IF x \in DOMAIN e THEN e[x] ELSE d[x]]

ODHas(od, k) == \E i \in 1..Len(od) : od[i].k = k

ODGet(od, k) == od[CHOOSE i \in 1..Len(od) : od[i].k = k].v

ODSet(od, k, v) ==
  IF ODHas(od, k)
  THEN [i \in 1..Len(od) |-> IF od[i].k = k THEN [k |-> k, v |-> v] ELSE od[i]]
  ELSE Append(od, [k |-> k, v |-> v])

\* od.setdefault(k, {}) followed by a read of the entry
ODGetOrEmpty(od, k) == IF ODHas(od, k) THEN ODGet(od, k) ELSE <<>>

(***************************************************************************)
(* Builder capability and merge policies (etielle/instances.py).           *)
(***************************************************************************)
FieldSpec(selector, transform) == [name |-> selector, transform |-> transform]

\* A string selector is the field name itself.
resolve_field_name_for_builder(builder, spec_field) == spec_field.name

\* MergePolicy.merge(prev, new); prev is None when the field was never set.
PolicyMerge(policy, prev, value) ==
  IF policy = "AddPolicy"
  THEN IF prev = Null THEN value ELSE I(prev.n + value.n)
  ELSE IF policy = "FirstNonNullPolicy"
       THEN IF prev # Null THEN prev ELSE value
       ELSE value

\* builder.finalize_all(): one instance per key that received an update, in
\* order of first update; the plain-mapping builder's instance is the dict
\* of all the field updates it received for the key, later updates winning.
RECURSIVE finalize_all(_)
finalize_all(calls) ==
  IF calls = <<>> THEN <<>>
  ELSE LET before == finalize_all(SubSeq(calls, 1, Len(calls) - 1))
           call   == calls[Len(calls)]
       IN  ODSet(before, call.key, DictUpdate(ODGetOrEmpty(before, call.key), call.updates))

(***************************************************************************)
(* run_mapping: the state of one run.                                      *)
(***************************************************************************)
VARIABLES
  root,             \* the JSON payload given to run_mapping
  spec,             \* the MappingSpec given to run_mapping
  pc,               \* "loop" while the emit loop runs, then "done"
  items,            \* the (traversal, ctx, emit) triples the loops visit, in order
  pos,              \* position of the loop: index of the next triple of items
  table_to_index,   \* table -> (composite key -> row), classic rows
  instance_tables,  \* table -> [builder, shadow, policies]
  builder_updates,  \* builder -> the update(key, updates) calls it received
  result            \* table -> list of rows / instances, set on completion

(***************************************************************************)
(* PipelineBuilder (fluent.py): the state of one builder and of its run.   *)
(***************************************************************************)
VARIABLES
  program,                \* the chained calls the caller makes on the builder
  ip,                     \* index of the next call of program
  _roots,                 \* the JSON roots given to etl()
  _error_mode,            \* "collect" or "fail_fast", given to etl()
  _current_root_index,    \* navigation state, 0-based as in the code
  _current_path,
  _iteration_depth,
  _iteration_points,
  _emissions,             \* the emission dicts recorded by map_to
  _relationships,         \* the relationship dicts recorded by link_to
  _session,               \* "None" until load(session)
  phase,                  \* where run stands: "build" before run is called
  root_queue,             \* run: root indexes still to execute, ascending
  all_raw_results,        \* run: table -> MappingResult merged over the roots
  rel_specs,              \* run: the ManyToOneSpecs built from _relationships
  child_to_parent,        \* run: per relationship, child key -> parent key
  tables,                 \* run: table -> (key -> instance)
  errors,                 \* run: table -> (key -> messages)
  flush_order,            \* run: the order topological_sort returned
  fpos,                   \* run: index in flush_order of the table at hand
  session_log,            \* the add(instance) / flush() calls the session received
  attrs,                  \* relationship attributes set on child instances
  raised                  \* the exception that ended the run, "" if none

exec == <<root, spec, pc, items, pos, table_to_index, instance_tables, builder_updates, result>>

conf == <<program, _roots, _error_mode>>

nav == <<_current_root_index, _current_path, _iteration_depth, _iteration_points>>

decl == <<_emissions, _relationships, _session>>

runv == <<root_queue, all_raw_results, rel_specs, child_to_parent, tables, errors,
          flush_order, fpos, session_log, attrs>>

pipe == <<conf, ip, nav, decl, phase, runv, raised>>

vars == <<exec, pipe>>

\* The three nested for loops of run_mapping visit these (ctx, emit) pairs in
\* this order: traversals in declared order, Contexts in traversal order,
\* emits in declared order.
LoopItems(r, sp) ==
  FlattenSeq([ti \in 1..Len(sp.traversals) |->
    LET tr == sp.traversals[ti]
        cs == _iter_traversal_nodes(r, tr)
    IN  FlattenSeq([ci \in 1..Len(cs) |->
          [ei \in 1..Len(tr.emits) |->
            [ti |-> ti, ci |-> ci, ei |-> ei, ctx |-> cs[ci], emit |-> tr.emits[ei]]]])])

InLoop == pc = "loop" /\ pos <= Len(items)

Cur == items[pos]

\* key_parts = [tr(ctx) for tr in emit.join_keys]
KeyParts(emit, ctx) == [i \in 1..Len(emit.join_keys) |-> Apply(emit.join_keys[i], ctx)]

\* Variant: only None parts are skipped, "" passes as a key.
KeySkipped_NoneOnly(key_parts) ==
  \E i \in 1..Len(key_parts) : key_parts[i] = Null

\* any(part is None or part == "" for part in key_parts)
KeySkipped(key_parts) ==
  \E i \in 1..Len(key_parts) : key_parts[i] = Null \/ key_parts[i] = S("")

\* Variant: a None value does not replace a value already in the row.
RowWrite_KeepOnNone(row, name, value) ==
  IF value = Null /\ DictHas(row, name) THEN row ELSE DictSet(row, name, value)

\* row[fld.name] = value
RowWrite(row, name, value) == DictSet(row, name, value)

\* for fld in emit.fields: row[fld.name] = fld.transform(ctx)
RECURSIVE WriteFields(_, _, _)
WriteFields(row, fields, ctx) ==
  IF fields = <<>> THEN row
  ELSE WriteFields(RowWrite(row, Head(fields).name, Apply(Head(fields).transform, ctx)),
                   Tail(fields), ctx)

\* Variant: without a policy, None does not replace a value already stored.
MergedValue_KeepPrev(policies, shadow_bucket, field_name, value) ==
  IF DictHas(policies, field_name)
  THEN PolicyMerge(policies[field_name],
                   IF DictHas(shadow_bucket, field_name) THEN shadow_bucket[field_name] ELSE Null,
                   value)
  ELSE IF value = Null /\ DictHas(shadow_bucket, field_name)
       THEN shadow_bucket[field_name]
       ELSE value

\* Variant: the policy never sees the previous value.
MergedValue_NoShadow(policies, shadow_bucket, field_name, value) ==
  IF DictHas(policies, field_name)
  THEN PolicyMerge(policies[field_name], Null, value)
  ELSE value

\* The value stored for one field of an InstanceEmit: the transform's value,
\* passed through the table's policy for the field when there is one.
MergedValue(policies, shadow_bucket, field_name, value) ==
  IF DictHas(policies, field_name)
  THEN PolicyMerge(policies[field_name],
                   IF DictHas(shadow_bucket, field_name) THEN shadow_bucket[field_name] ELSE Null,
                   value)
  ELSE value

\* for spec_field in emit.fields: ... shadow_bucket[field_name] = value;
\* updates[field_name] = value.  Returns both dicts.
RECURSIVE BuildUpdates(_, _, _, _, _, _)
BuildUpdates(shadow_bucket, updates, fields, ctx, policies, builder) ==
  IF fields = <<>> THEN [shadow_bucket |-> shadow_bucket, updates |-> updates]
  ELSE LET field_name == resolve_field_name_for_builder(builder, Head(fields))
           value == MergedValue(policies, shadow_bucket, field_name,
                                Apply(Head(fields).transform, ctx))
       IN  BuildUpdates(DictSet(shadow_bucket, field_name, value),
                        DictSet(updates, field_name, value),
                        Tail(fields), ctx, policies, builder)

\* Variant: every emission starts from a fresh row.
FetchRow_Fresh(idx, composite_key) == <<>>

\* table_to_index.setdefault(emit.table, {}).setdefault(composite_key, {})
FetchRow(idx, composite_key) == ODGetOrEmpty(idx, composite_key)

\* Join key has a None / "" part: continue with the next emit.
SkipEmission ==
  /\ InLoop
  /\ KeySkipped(KeyParts(Cur.emit, Cur.ctx))
  /\ pos' = pos + 1
  /\ UNCHANGED <<root, spec, items, pc, table_to_index, instance_tables, builder_updates, result>>
  /\ UNCHANGED pipe

\* isinstance(emit, TableEmit)
RowEmission ==
  /\ InLoop
  /\ ~KeySkipped(KeyParts(Cur.emit, Cur.ctx))
  /\ Cur.emit.type = "TableEmit"
  /\ LET emit == Cur.emit
         composite_key == KeyParts(emit, Cur.ctx)
         idx == IF DictHas(table_to_index, emit.table) THEN table_to_index[emit.table] ELSE <<>>
         row == WriteFields(FetchRow(idx, composite_key), emit.fields, Cur.ctx)
     IN  table_to_index' = DictSet(table_to_index, emit.table, ODSet(idx, composite_key, row))
  /\ pos' = pos + 1
  /\ UNCHANGED <<root, spec, items, pc, instance_tables, builder_updates, result>>
  /\ UNCHANGED pipe

\* isinstance(emit, InstanceEmit)
InstanceEmission ==
  /\ InLoop
  /\ ~KeySkipped(KeyParts(Cur.emit, Cur.ctx))
  /\ Cur.emit.type = "InstanceEmit"
  /\ LET emit == Cur.emit
         composite_key == KeyParts(emit, Cur.ctx)
         tbl == IF DictHas(instance_tables, emit.table)
                THEN instance_tables[emit.table]
                ELSE [builder |-> emit.builder, shadow |-> <<>>, policies |-> emit.policies]
         policies == DictUpdate(tbl.policies, emit.policies)
         built == BuildUpdates(ODGetOrEmpty(tbl.shadow, composite_key), <<>>,
                               emit.fields, Cur.ctx, policies, tbl.builder)
     IN  /\ instance_tables' =
              DictSet(instance_tables, emit.table,
                      [builder |-> tbl.builder,
                       shadow |-> ODSet(tbl.shadow, composite_key, built.shadow_bucket),
                       policies |-> policies])
         /\ builder_updates' =
              [builder_updates EXCEPT ![tbl.builder] =
                 Append(@, [key |-> composite_key, updates |-> built.updates])]
  /\ pos' = pos + 1
  /\ UNCHANGED <<root, spec, items, pc, table_to_index, result>>
  /\ UNCHANGED pipe

\* Unknown emit type: ignore gracefully
UnknownEmission ==
  /\ InLoop
  /\ ~KeySkipped(KeyParts(Cur.emit, Cur.ctx))
  /\ Cur.emit.type \notin {"TableEmit", "InstanceEmit"}
  /\ pos' = pos + 1
  /\ UNCHANGED <<root, spec, items, pc, table_to_index, instance_tables, builder_updates, result>>
  /\ UNCHANGED pipe

\* Variant: the id is taken from the first key part whatever the key length.
EnsureId_AnyLength(key_tuple, data) ==
  IF ~DictHas(data, "id") THEN DictSet(data, "id", key_tuple[1]) ELSE data

\* if len(key_tuple) == 1 and "id" not in data: data["id"] = key_tuple[0]
EnsureId(key_tuple, data) ==
  IF Len(key_tuple) = 1 /\ ~DictHas(data, "id")
  THEN DictSet(data, "id", key_tuple[1])
  ELSE data

\* The loops are over: convert the indexes to lists (the rows are the index's
\* own dicts, so the injected id shows in both), then finalize the builders.
Materialize ==
  /\ pc = "loop"
  /\ pos > Len(items)
  /\ table_to_index' =
       [tb \in DOMAIN table_to_index |->
          [i \in 1..Len(table_to_index[tb]) |->
             [k |-> table_to_index[tb][i].k,
              v |-> EnsureId(table_to_index[tb][i].k, table_to_index[tb][i].v)]]]
  /\ result' =
       [tb \in (DOMAIN table_to_index) \cup (DOMAIN instance_tables) |->
          IF DictHas(instance_tables, tb)
          THEN LET finalized == finalize_all(builder_updates[instance_tables[tb].builder])
               IN  [i \in 1..Len(finalized) |-> finalized[i].v]
          ELSE [i \in 1..Len(table_to_index[tb]) |-> table_to_index'[tb][i].v]]
  /\ pc' = "done"
  /\ UNCHANGED <<root, spec, items, pos, instance_tables, builder_updates>>
  /\ UNCHANGED pipe

(***************************************************************************)
(* Inputs of the runs explored: payloads and mapping specs.                *)
(***************************************************************************)
MaxLen == 3     \* longest list / mapping of flat records under "users"

MaxOuter == 2   \* longest list / mapping of nested records under "groups"

Rec(id, name) == M(<<S("id"), S("name")>>, <<id, name>>)

\* Flat records: duplicate ids, a null name, an empty-string id, a missing id.
Leaves ==
  { Rec(I(1), S("a")), Rec(I(1), Null), Rec(I(2), S("b")), Rec(I(1), S("b")),
    Rec(S(""), S("b")), M(<<S("name")>>, <<S("a")>>) }

MapLeaves == { Rec(I(1), S("a")), Rec(I(2), Null) }

\* Mapping keys: strings and an int; 1 and "1" stringify to the same text.
MapKeys == { S("u1"), I(1), S("1") }

SeqsUpTo(elems, n) == UNION { [1..k -> elems] : k \in 0..n }

InjSeqsUpTo(elems, n) ==
  { f \in SeqsUpTo(elems, n) : \A i, j \in 1..Len(f) : i # j => f[i] # f[j] }

MapsUpTo(keys, vals, n) ==
  UNION { { M(ks, vs) : vs \in [1..Len(ks) -> vals] } : ks \in InjSeqsUpTo(keys, n) }

\* What a nested record holds under "posts": a list, a mapping, nothing, a
\* string, an empty list.
Inners ==
  { L(<<Rec(I(1), S("a")), Rec(I(2), S("b"))>>),
    M(<<S("p"), I(1)>>, <<Rec(I(1), S("a")), Rec(I(2), Null)>>),
    Null, S("xy"), L(<<>>) }

Nested == { M(<<S("id"), S("posts")>>, <<I(7), inner>>) : inner \in Inners }

Doc(k, v) == M(<<S(k)>>, <<v>>)

Roots ==
     { Doc("users", L(es)) : es \in SeqsUpTo(Leaves, MaxLen) }
  \cup { Doc("users", m) : m \in MapsUpTo(MapKeys, MapLeaves, MaxLen) }
  \cup { Doc("groups", L(ns)) : ns \in SeqsUpTo(Nested, MaxOuter) }
  \cup { Doc("groups", m) : m \in MapsUpTo({S("g"), I(1)}, Nested, MaxOuter) }
  \cup { Doc("users", Null), Doc("users", S("abc")), Doc("users", I(5)),
         M(<<>>, <<>>), L(<<Rec(I(1), S("a")), Rec(I(2), S("b"))>>) }

Users == <<S("users")>>

Groups == <<S("groups")>>

Posts == <<S("posts")>>

GetId == get(<<S("id")>>)

GetName == get(<<S("name")>>)

NameField == Field("name", GetName)

Probe == <<Field("name", GetName), Field("key", key), Field("index", index)>>

Specs ==
  << \* rows keyed by id
     MappingSpec(<<TraversalSpec(Users, FALSE, <<>>, "None",
        <<TableEmit("users", <<NameField>>, <<GetId>>)>>)>>),
     \* two emits and a second traversal converging on one table
     MappingSpec(<<TraversalSpec(Users, FALSE, <<>>, "None",
        <<TableEmit("users", <<NameField>>, <<GetId>>),
          TableEmit("users", <<Field("index", index)>>, <<literal(I(1))>>)>>),
        TraversalSpec(Users, FALSE, <<>>, "None",
        <<TableEmit("users", <<Field("last", index)>>, <<GetId>>)>>)>>),
     \* a one-part key without and with an explicit id field, a two-part key
     MappingSpec(<<TraversalSpec(Users, FALSE, <<>>, "None",
        <<TableEmit("plain", <<NameField>>, <<GetId>>),
          TableEmit("named", <<Field("id", GetName)>>, <<GetId>>),
          TableEmit("pairs", <<NameField>>, <<GetId, GetName>>)>>)>>),
     \* the same emission as rows and as instances without policies
     MappingSpec(<<TraversalSpec(Users, FALSE, <<>>, "None",
        <<TableEmit("rows", <<NameField, Field("index", index)>>, <<GetId>>),
          InstanceEmit("insts", <<FieldSpec("name", GetName), FieldSpec("index", index)>>,
                       <<GetId>>, "b1", <<>>)>>)>>),
     \* merge policies: a counter, a first-non-null field, a plain field
     MappingSpec(<<TraversalSpec(Users, FALSE, <<>>, "None",
        <<InstanceEmit("counts",
             <<FieldSpec("count", literal(I(1))), FieldSpec("first", GetName),
               FieldSpec("name", GetName)>>,
             <<GetId>>, "b1",
             [f \in {"count", "first"} |->
                IF f = "count" THEN "AddPolicy" ELSE "FirstNonNullPolicy"])>>)>>),
     \* mapping entries
     MappingSpec(<<TraversalSpec(Users, TRUE, <<>>, "None",
        <<TableEmit("entries", Probe, <<key>>)>>)>>),
     \* outer container, then the container under "posts" of each element
     MappingSpec(<<TraversalSpec(Groups, FALSE, Posts, "None",
        <<TableEmit("posts", Probe, <<get_from_parent(<<S("id")>>), GetId>>)>>)>>),
     MappingSpec(<<TraversalSpec(Groups, FALSE, Posts, "True",
        <<TableEmit("posts", Probe, <<key>>)>>)>>),
     MappingSpec(<<TraversalSpec(Groups, TRUE, Posts, "False",
        <<TableEmit("posts", Probe, <<index>>)>>)>>),
     MappingSpec(<<TraversalSpec(Groups, TRUE, Posts, "True",
        <<TableEmit("posts", Probe, <<key>>)>>)>>),
     \* the root itself, and an emit of a type the executor does not know
     MappingSpec(<<TraversalSpec(<<>>, FALSE, <<>>, "None",
        <<TableEmit("root", Probe, <<literal(S("r"))>>),
          [type |-> "Other", table |-> "x", fields |-> <<>>,
           join_keys |-> <<literal(I(1))>>, builder |-> "", policies |-> <<>>]>>)>>),
     \* two instance emits on one table with different policies for one field
     MappingSpec(<<TraversalSpec(Users, FALSE, <<>>, "None",
        <<InstanceEmit("mixed", <<FieldSpec("count", literal(I(1)))>>, <<GetId>>, "b1",
                       [f \in {"count"} |-> "AddPolicy"]),
          InstanceEmit("mixed", <<FieldSpec("count", literal(I(1)))>>, <<GetId>>, "b2",
                       [f \in {"count"} |-> "FirstNonNullPolicy"])>>)>>)
  >>

BuilderIds == {"b1", "b2", "b3"}

\* No pipeline is being built: run_mapping is called directly.
NoPipeline ==
  /\ program = <<>>
  /\ ip = 1
  /\ _roots = <<>>
  /\ _error_mode = "collect"
  /\ _current_root_index = 0
  /\ _current_path = <<>>
  /\ _iteration_depth = 0
  /\ _iteration_points = <<>>
  /\ _emissions = <<>>
  /\ _relationships = <<>>
  /\ _session = "None"
  /\ phase = "none"
  /\ root_queue = <<>>
  /\ all_raw_results = <<>>
  /\ rel_specs = <<>>
  /\ child_to_parent = <<>>
  /\ tables = <<>>
  /\ errors = <<>>
  /\ flush_order = <<>>
  /\ fpos = 1
  /\ session_log = <<>>
  /\ attrs = <<>>
  /\ raised = ""

Init ==
  /\ NoPipeline
  /\ root \in Roots
  /\ \E i \in 1..Len(Specs) : spec = Specs[i]
  /\ items = LoopItems(root, spec)
  /\ pc = "loop"
  /\ pos = 1
  /\ table_to_index = <<>>
  /\ instance_tables = <<>>
  /\ builder_updates = [b \in BuilderIds |-> <<>>]
  /\ result = <<>>

Next ==
  \/ SkipEmission
  \/ RowEmission
  \/ InstanceEmission
  \/ UnknownEmission
  \/ Materialize

Spec == Init /\ [][Next]_vars

(***************************************************************************)
(* The fluent API (fluent.py).  A field is [kind, name, transform, merge], *)
(* merge "" standing for None.  The table given to map_to is a string or   *)
(* a model class; a model class is known by its name, and the table name,  *)
(* None and the attribute names of a class are those of the caller's       *)
(* classes User and Post.                                                  *)
(***************************************************************************)
FluentField(name, transform, merge) ==
  [kind |-> "Field", name |-> name, transform |-> transform, merge |-> merge]

TempField(name, transform) ==
  [kind |-> "TempField", name |-> name, transform |-> transform, merge |-> ""]

TableName(name) == [is_str |-> TRUE, name |-> name]

TableClass(cls) == [is_str |-> FALSE, name |-> cls]

\* getattr(table, "__tablename__", table.__name__.lower())
Tablename(cls) ==
  IF cls = "User" THEN "users" ELSE IF cls = "Post" THEN "posts" ELSE cls

\* The chained calls.  goto takes the segments of its path.
NoCall ==
  [op |-> "", index |-> 0, path |-> <<>>, table |-> TableName(""), fields |-> <<>>,
   join_on |-> <<>>, errors |-> "", parent |-> "", by |-> <<>>]

GotoRoot(i) == [NoCall EXCEPT !.op = "goto_root", !.index = i]

Goto(path) == [NoCall EXCEPT !.op = "goto", !.path = path]

Each == [NoCall EXCEPT !.op = "each"]

MapTo(table, fields, join_on, errs) ==
  [NoCall EXCEPT !.op = "map_to", !.table = table, !.fields = fields,
                 !.join_on = join_on, !.errors = errs]

LinkTo(parent, by) == [NoCall EXCEPT !.op = "link_to", !.parent = parent, !.by = by]

Load == [NoCall EXCEPT !.op = "load"]

Run == [NoCall EXCEPT !.op = "run"]

Calling(op) == phase = "build" /\ ip <= Len(program) /\ program[ip].op = op

Call == program[ip]

\* Variant: the iteration points survive the change of root.
goto_root_KeepPoints ==
  /\ Calling("goto_root")
  /\ IF Call.index < 0 \/ Call.index >= Len(_roots)
     THEN /\ raised' = "IndexError"
          /\ phase' = "raised"
          /\ UNCHANGED nav
     ELSE /\ _current_root_index' = Call.index
          /\ _current_path' = <<>>
          /\ _iteration_depth' = 0
          /\ UNCHANGED <<_iteration_points, raised, phase>>
  /\ ip' = ip + 1
  /\ UNCHANGED <<exec, conf, decl, runv>>

goto_root ==
  /\ Calling("goto_root")
  /\ IF Call.index < 0 \/ Call.index >= Len(_roots)
     THEN /\ raised' = "IndexError"
          /\ phase' = "raised"
          /\ UNCHANGED nav
     ELSE /\ _current_root_index' = Call.index
          /\ _current_path' = <<>>
          /\ _iteration_depth' = 0
          /\ _iteration_points' = <<>>
          /\ UNCHANGED <<raised, phase>>
  /\ ip' = ip + 1
  /\ UNCHANGED <<exec, conf, decl, runv>>

\* Variant: the last emission shares the builder's path list, so extending
\* the path extends the emission's path too.
goto_Aliased ==
  /\ Calling("goto")
  /\ _current_path' = _current_path \o Call.path
  /\ _emissions' =
       IF _emissions = <<>> THEN _emissions
       ELSE [_emissions EXCEPT ![Len(_emissions)].path = @ \o Call.path]
  /\ ip' = ip + 1
  /\ UNCHANGED <<exec, conf, _current_root_index, _iteration_depth, _iteration_points,
                 _relationships, _session, phase, runv, raised>>

goto ==
  /\ Calling("goto")
  /\ _current_path' = _current_path \o Call.path
  /\ ip' = ip + 1
  /\ UNCHANGED <<exec, conf, _current_root_index, _iteration_depth, _iteration_points,
                 decl, phase, runv, raised>>

\* Variant: the depth is counted and the iteration point is not recorded.
each_DepthOnly ==
  /\ Calling("each")
  /\ _iteration_depth' = _iteration_depth + 1
  /\ ip' = ip + 1
  /\ UNCHANGED <<exec, conf, _current_root_index, _current_path, _iteration_points, decl,
                 phase, runv, raised>>

each ==
  /\ Calling("each")
  /\ _iteration_depth' = _iteration_depth + 1
  /\ _iteration_points' = Append(_iteration_points, _current_path)
  /\ ip' = ip + 1
  /\ UNCHANGED <<exec, conf, _current_root_index, _current_path, decl, phase, runv, raised>>

map_to ==
  /\ Calling("map_to")
  /\ LET emission ==
           [table |-> IF Call.table.is_str THEN Call.table.name
                      ELSE Tablename(Call.table.name),
            table_class |-> IF Call.table.is_str THEN "" ELSE Call.table.name,
            fields |-> Call.fields,
            join_on |-> Call.join_on,
            errors |-> Call.errors,
            path |-> _current_path,
            iteration_depth |-> _iteration_depth,
            iteration_points |-> _iteration_points,
            root_index |-> _current_root_index]
     IN  _emissions' = Append(_emissions, emission)
  /\ ip' = ip + 1
  /\ UNCHANGED <<exec, conf, nav, _relationships, _session, phase, runv, raised>>

\* Variant: the relationship is attached to the first emission.
link_to_FirstEmission ==
  /\ Calling("link_to")
  /\ IF _emissions = <<>>
     THEN /\ raised' = "ValueError"
          /\ phase' = "raised"
          /\ UNCHANGED _relationships
     ELSE /\ _relationships' =
               Append(_relationships,
                      [child_table |-> _emissions[1].table,
                       parent_class |-> Call.parent,
                       parent_table |-> Tablename(Call.parent),
                       by |-> Call.by,
                       emission_index |-> 0])
          /\ UNCHANGED <<raised, phase>>
  /\ ip' = ip + 1
  /\ UNCHANGED <<exec, conf, nav, _emissions, _session, runv>>

link_to ==
  /\ Calling("link_to")
  /\ IF _emissions = <<>>
     THEN /\ raised' = "ValueError"
          /\ phase' = "raised"
          /\ UNCHANGED _relationships
     ELSE /\ _relationships' =
               Append(_relationships,
                      [child_table |-> _emissions[Len(_emissions)].table,
                       parent_class |-> Call.parent,
                       parent_table |-> Tablename(Call.parent),
                       by |-> Call.by,
                       emission_index |-> Len(_emissions) - 1])
          /\ UNCHANGED <<raised, phase>>
  /\ ip' = ip + 1
  /\ UNCHANGED <<exec, conf, nav, _emissions, _session, runv>>

load ==
  /\ Calling("load")
  /\ _session' = "session"
  /\ ip' = ip + 1
  /\ UNCHANGED <<exec, conf, nav, _emissions, _relationships, phase, runv, raised>>

Elems(seq) == { seq[i] : i \in 1..Len(seq) }

\* field_map = {f.name: f.transform for f in emission["fields"]}
FieldMapHas(fields, name) == \E i \in 1..Len(fields) : fields[i].name = name

FieldMapGet(fields, name) ==
  fields[CHOOSE i \in 1..Len(fields) :
           /\ fields[i].name = name
           /\ \A j \in (i + 1)..Len(fields) : fields[j].name # name].transform

\* Variant: the TempFields are taken last to first.
join_keys_of_Reversed(emission) ==
  IF emission.join_on # <<>>
  THEN LET named == SelectSeq(emission.join_on, LAMBDA n : FieldMapHas(emission.fields, n))
       IN  [i \in 1..Len(named) |-> FieldMapGet(emission.fields, named[i])]
  ELSE LET temps == SelectSeq(emission.fields, LAMBDA f : f.kind = "TempField")
       IN  [i \in 1..Len(temps) |-> temps[Len(temps) + 1 - i].transform]

\* The join-key transforms of an emission: the fields named in join_on, or
\* else the TempFields.
join_keys_of(emission) ==
  IF emission.join_on # <<>>
  THEN LET named == SelectSeq(emission.join_on, LAMBDA n : FieldMapHas(emission.fields, n))
       IN  [i \in 1..Len(named) |-> FieldMapGet(emission.fields, named[i])]
  ELSE LET temps == SelectSeq(emission.fields, LAMBDA f : f.kind = "TempField")
       IN  [i \in 1..Len(temps) |-> temps[i].transform]

\* The output fields of an emission: with join_on, the Fields it does not
\* name; without, every field that is not a TempField.
output_fields_of(emission) ==
  IF emission.join_on # <<>>
  THEN SelectSeq(emission.fields,
                 LAMBDA f : f.kind = "Field" /\ f.name \notin Elems(emission.join_on))
  ELSE SelectSeq(emission.fields, LAMBDA f : f.kind # "TempField")

\* merge_policies[f.name] = f.merge for the output fields that carry a policy
merge_policies_of(out) ==
  LET names == { out[i].name : i \in { j \in 1..Len(out) : out[j].merge # "" } }
  IN  IF names = {} THEN <<>>
      ELSE [n \in names |->
              out[CHOOSE i \in 1..Len(out) :
                    /\ out[i].name = n /\ out[i].merge # ""
                    /\ \A j \in (i + 1)..Len(out) : ~(out[j].name = n /\ out[j].merge # "")].merge]

\* _detect_builder: None ("") for no model class, else a new builder object,
\* known here by the name the caller passes.
_detect_builder(table_class, builder_id) == IF table_class = "" THEN "" ELSE builder_id

\* TraversalSpec(path=, mode=, inner_path=, inner_mode=, emits=) as fluent.py
\* builds it; inner_path <<>> is None.
ModeTraversalSpec(path, mode, inner_path, inner_mode, emits) ==
  [path |-> path, mode |-> mode, inner_path |-> inner_path, inner_mode |-> inner_mode,
   emits |-> emits]

\* The emit of one emission.  strict_mode is handed to InstanceEmit.
emit_of(emission, error_mode, builder_id) ==
  LET join_keys == join_keys_of(emission)
      out == output_fields_of(emission)
      merge_policies == merge_policies_of(out)
      builder == _detect_builder(emission.table_class, builder_id)
      mode == IF emission.errors # "" THEN emission.errors ELSE error_mode
      strict_mode == IF mode = "fail_fast" THEN "fail_fast" ELSE "collect_all"
      keys == IF join_keys # <<>> THEN join_keys ELSE <<literal(Null)>>
  IN  IF builder # "" \/ merge_policies # <<>>
      THEN [type |-> "InstanceEmit", table |-> emission.table,
            fields |-> [i \in 1..Len(out) |-> FieldSpec(out[i].name, out[i].transform)],
            join_keys |-> keys,
            \* without a model class: TypedDictBuilder(lambda d: d)
            builder |-> builder_id,
            policies |-> merge_policies,
            strict_mode |-> strict_mode]
      ELSE TableEmit(emission.table,
                     [i \in 1..Len(out) |-> Field(out[i].name, out[i].transform)], keys)

\* One TraversalSpec per emission: no each() gives a single-node traversal of
\* the path; otherwise the outer path is the first iteration point and the
\* inner path is what the path holds beyond it.
_build_traversal_specs(emissions, error_mode, builder_id) ==
  [j \in 1..Len(emissions) |->
     LET emission == emissions[j]
         path == emission.path
         iteration_points == emission.iteration_points
         table_emit == emit_of(emission, error_mode, builder_id)
     IN  IF Len(iteration_points) = 0
         THEN ModeTraversalSpec(path, "single", <<>>, "auto", <<table_emit>>)
         ELSE ModeTraversalSpec(iteration_points[1], "auto",
                                SubSeq(path, Len(iteration_points[1]) + 1, Len(path)),
                                "auto", <<table_emit>>)]

(***************************************************************************)
(* Traversal by mode (the executor fluent.py is written against): "single" *)
(* yields one Context wrapping the container, "items" its mapping entries, *)
(* "auto" the entries of a mapping and otherwise what the sequence branch  *)
(* of yield_from_container yields.                                         *)
(***************************************************************************)
yield_by_mode(r, parent_ctx, container, mode) ==
  IF mode = "single"
  THEN <<Context(r, container, parent_ctx.path, <<parent_ctx>>, Null, Null)>>
  ELSE IF mode = "items"
       THEN yield_from_container(r, parent_ctx, container, TRUE)
       ELSE yield_from_container(r, parent_ctx, container, IsMapping(container))

iter_nodes_by_mode(r, sp) ==
  LET base  == _iter_nodes(r, sp.path)
      outer == yield_by_mode(r, base.base_ctx, base.container, sp.mode)
  IN  IF sp.inner_path = <<>>
      THEN outer
      ELSE FlattenSeq([j \in 1..Len(outer) |->
             yield_by_mode(r, outer[j], _resolve_path(outer[j].node, sp.inner_path),
                           sp.inner_mode)])

ModeLoopItems(r, sp) ==
  FlattenSeq([ti \in 1..Len(sp.traversals) |->
    LET tr == sp.traversals[ti]
        cs == iter_nodes_by_mode(r, tr)
    IN  FlattenSeq([ci \in 1..Len(cs) |->
          [ei \in 1..Len(tr.emits) |->
            [ti |-> ti, ci |-> ci, ei |-> ei, ctx |-> cs[ci], emit |-> tr.emits[ei]]]])])

(***************************************************************************)
(* run, first part: one run_mapping per root that has emissions.           *)
(***************************************************************************)
RECURSIVE SortedSeq(_)
SortedSeq(ns) ==
  IF ns = {} THEN <<>>
  ELSE LET m == CHOOSE n \in ns : \A k \in ns : n <= k
       IN  <<m>> \o SortedSeq(ns \ {m})

BuilderNames == <<"b1", "b2", "b3">>

\* emissions_by_root[root_idx]
EmissionsOfRoot(root_idx) == SelectSeq(_emissions, LAMBDA e : e.root_index = root_idx)

\* The specs of one root: _build_traversal_specs called once per emission,
\* each call making its own builder.
SpecsOfRoot(root_idx) ==
  LET emissions == EmissionsOfRoot(root_idx)
  IN  FlattenSeq([j \in 1..Len(emissions) |->
        _build_traversal_specs(<<emissions[j]>>, _error_mode, BuilderNames[j])])

\* run() is called: group the emissions by root index.
run_begin ==
  /\ Calling("run")
  /\ root_queue' = SortedSeq({ _emissions[i].root_index : i \in 1..Len(_emissions) })
  /\ all_raw_results' = <<>>
  /\ phase' = "mapping"
  /\ ip' = ip + 1
  /\ UNCHANGED <<exec, conf, nav, decl, rel_specs, child_to_parent, tables, errors,
                 flush_order, fpos, session_log, attrs, raised>>

\* raw_results = run_mapping(root, mapping_spec) starts for the next root.
run_root ==
  /\ phase = "mapping"
  /\ root_queue # <<>>
  /\ pc = "idle"
  /\ root' = _roots[Head(root_queue) + 1]
  /\ spec' = MappingSpec(SpecsOfRoot(Head(root_queue)))
  /\ items' = ModeLoopItems(root', spec')
  /\ pc' = "loop"
  /\ pos' = 1
  /\ table_to_index' = <<>>
  /\ instance_tables' = <<>>
  /\ builder_updates' = [b \in BuilderIds |-> <<>>]
  /\ result' = <<>>
  /\ UNCHANGED pipe

(***************************************************************************)
(* What run reads from run_mapping: per table a MappingResult with the     *)
(* instances by key and the builder's update and finalize errors by key.   *)
(* The builder of a model class (etielle/instances.py) rejects an update   *)
(* that names a field the class does not have and cannot finalize a key    *)
(* whose required fields are absent or None; the plain-mapping builder     *)
(* accepts everything.  An instance is [class, data], class "" for a       *)
(* plain dict.                                                             *)
(***************************************************************************)
KnownFields(cls) ==
  IF cls = "User" THEN {"id", "name"}
  ELSE IF cls = "Post" THEN {"id", "title"} ELSE {}

RequiredFields(cls) == IF cls = "User" THEN {"name"} ELSE {}

Instance(cls, data) == [class |-> cls, data |-> data]

Msg(kind, fields) == [kind |-> kind, fields |-> fields]

Rejected(cls, updates) == IF cls = "" THEN {} ELSE (DOMAIN updates) \ KnownFields(cls)

Missing(cls, data) ==
  { f \in RequiredFields(cls) : ~DictHas(data, f) \/ data[f] = Null }

\* The builder's update errors: one message per update call it rejected.
RECURSIVE update_errors_of(_, _)
update_errors_of(cls, calls) ==
  IF calls = <<>> THEN <<>>
  ELSE LET before == update_errors_of(cls, SubSeq(calls, 1, Len(calls) - 1))
           call   == calls[Len(calls)]
           bad    == Rejected(cls, call.updates)
       IN  IF bad = {} THEN before
           ELSE ODSet(before, call.key,
                      Append(ODGetOrEmpty(before, call.key), Msg("unknown_field", bad)))

\* The update calls as the builder applies them: rejected fields left out.
accepted_updates(cls, calls) ==
  [i \in 1..Len(calls) |->
     [key |-> calls[i].key,
      updates |-> LET keep == (DOMAIN calls[i].updates) \ Rejected(cls, calls[i].updates)
                  IN  IF keep = {} THEN <<>> ELSE [f \in keep |-> calls[i].updates[f]]]]

\* The class of the builder object made for the j-th emission of the root.
BuilderClassOf(b) ==
  LET emissions == EmissionsOfRoot(Head(root_queue))
  IN  emissions[CHOOSE j \in 1..Len(emissions) : BuilderNames[j] = b].table_class

MappingResultOf(tb) ==
  IF DictHas(instance_tables, tb)
  THEN LET b     == instance_tables[tb].builder
           cls   == BuilderClassOf(b)
           calls == builder_updates[b]
           finalized == finalize_all(accepted_updates(cls, calls))
           good  == SelectSeq(finalized, LAMBDA e : Missing(cls, e.v) = {})
           bad   == SelectSeq(finalized, LAMBDA e : Missing(cls, e.v) # {})
       IN  [instances |->
              [i \in 1..Len(good) |-> [k |-> good[i].k, v |-> Instance(cls, good[i].v)]],
            update_errors |-> update_errors_of(cls, calls),
            finalize_errors |->
              [i \in 1..Len(bad) |->
                 [k |-> bad[i].k,
                  v |-> <<Msg("missing_required", Missing(cls, bad[i].v))>>]]]
  ELSE [instances |->
          [i \in 1..Len(table_to_index[tb]) |->
             [k |-> table_to_index[tb][i].k,
              v |-> Instance("", table_to_index[tb][i].v)]],
        update_errors |-> <<>>,
        finalize_errors |-> <<>>]

\* for key, row in mapping_result.instances.items(): update the existing
\* instance of the key with the row's fields, or add the row
RECURSIVE merge_instances(_, _)
merge_instances(existing, new) ==
  IF new = <<>> THEN existing
  ELSE LET e == Head(new)
       IN  merge_instances(
             IF ODHas(existing, e.k)
             THEN ODSet(existing, e.k,
                        Instance(ODGet(existing, e.k).class,
                                 DictUpdate(ODGet(existing, e.k).data, e.v.data)))
             ELSE Append(existing, e),
             Tail(new))

\* for key, msgs in errors.items(): existing.setdefault(key, []).extend(msgs)
RECURSIVE merge_errors(_, _)
merge_errors(existing, new) ==
  IF new = <<>> THEN existing
  ELSE merge_errors(ODSet(existing, Head(new).k,
                          ODGetOrEmpty(existing, Head(new).k) \o Head(new).v),
                    Tail(new))

\* Merge into combined results
run_merge ==
  /\ phase = "mapping"
  /\ pc = "done"
  /\ all_raw_results' =
       [tb \in (DOMAIN all_raw_results) \cup (DOMAIN result) |->
          IF ~DictHas(result, tb) THEN all_raw_results[tb]
          ELSE IF ~DictHas(all_raw_results, tb) THEN MappingResultOf(tb)
          ELSE LET existing == all_raw_results[tb]
                   mapping_result == MappingResultOf(tb)
               IN  [instances |-> merge_instances(existing.instances, mapping_result.instances),
                    update_errors |->
                      merge_errors(existing.update_errors, mapping_result.update_errors),
                    finalize_errors |->
                      merge_errors(existing.finalize_errors, mapping_result.finalize_errors)]]
  /\ root_queue' = Tail(root_queue)
  /\ pc' = "idle"
  /\ UNCHANGED <<root, spec, items, pos, table_to_index, instance_tables, builder_updates,
                 result>>
  /\ UNCHANGED <<conf, ip, nav, decl, phase, rel_specs, child_to_parent, tables, errors,
                 flush_order, fpos, session_log, attrs, raised>>

(***************************************************************************)
(* run, second part: relationships.                                        *)
(***************************************************************************)
ManyToOneSpec(child_table, parent_table, attr, child_to_parent_key, required) ==
  [child_table |-> child_table, parent_table |-> parent_table, attr |-> attr,
   child_to_parent_key |-> child_to_parent_key, required |-> required]

\* parent_table_name.rstrip("s"), over the table names of the caller's classes
rstrip_s(name) ==
  IF name = "users" THEN "user" ELSE IF name = "posts" THEN "post" ELSE name

\* Variant: no transform is taken from the child emission.
rel_spec_of_NoTransforms(rel) ==
  ManyToOneSpec(rel.child_table, rel.parent_table, rstrip_s(rel.parent_table), <<>>, FALSE)

\* The ManyToOneSpec of one recorded relationship: the parent key is computed
\* by the transforms of the child emission's fields named in by, the first
\* field of each name.
rel_spec_of(rel) ==
  LET child_emission == _emissions[rel.emission_index + 1]
      found == SelectSeq(rel.by, LAMBDA e : FieldMapHas(child_emission.fields, e.k))
      transforms ==
        [i \in 1..Len(found) |->
           child_emission.fields[
             CHOOSE j \in 1..Len(child_emission.fields) :
               /\ child_emission.fields[j].name = found[i].k
               /\ \A h \in 1..(j - 1) : child_emission.fields[h].name # found[i].k].transform]
  IN  ManyToOneSpec(rel.child_table, rel.parent_table, rstrip_s(rel.parent_table),
                    transforms, FALSE)

\* Variant: only the specs of the first root are rebuilt.
AllSpecs_FirstRootOnly == SpecsOfRoot(0)

\* all_specs: the specs of every root, rebuilt
AllSpecs ==
  LET idxs == SortedSeq({ _emissions[i].root_index : i \in 1..Len(_emissions) })
  IN  FlattenSeq([i \in 1..Len(idxs) |-> SpecsOfRoot(idxs[i])])

\* The key map of one relationship over the (Context, emit) pairs of a pass:
\* for every Context that produces a key of the child table, the parent key
\* its transforms give, unless one of its parts is None or "".
RECURSIVE key_map_of(_, _)
key_map_of(its, rel_spec) ==
  IF its = <<>> THEN <<>>
  ELSE LET before == key_map_of(SubSeq(its, 1, Len(its) - 1), rel_spec)
           it == its[Len(its)]
           child_key == KeyParts(it.emit, it.ctx)
           parent_key == [i \in 1..Len(rel_spec.child_to_parent_key) |->
                            Apply(rel_spec.child_to_parent_key[i], it.ctx)]
       IN  IF it.emit.table = rel_spec.child_table /\ ~KeySkipped(child_key)
              /\ ~KeySkipped(parent_key)
           THEN ODSet(before, child_key, parent_key)
           ELSE before

\* compute_relationship_keys (etielle/relationships.py): a second pass over
\* the given root with all the specs, one key map per relationship.
compute_relationship_keys(r, traversals, specs) ==
  LET its == ModeLoopItems(r, MappingSpec(traversals))
  IN  [idx \in 1..Len(specs) |-> key_map_of(its, specs[idx])]

\* Variant: a child whose parent is missing is bound to the first parent.
RECURSIVE bind_children_AnyParent(_, _, _, _, _)
bind_children_AnyParent(at, rel_spec, key_map, child_instances, parent_instances) ==
  IF child_instances = <<>> THEN at
  ELSE LET child == Head(child_instances)
           bound == child.v.class # "" /\ parent_instances # <<>>
                    /\ parent_instances[1].v.class # ""
       IN  bind_children_AnyParent(
             IF bound
             THEN ODSet(at, <<rel_spec.child_table, child.k, rel_spec.attr>>,
                        [table |-> rel_spec.parent_table,
                         key |-> IF ODHas(key_map, child.k)
                                    /\ ODHas(parent_instances, ODGet(key_map, child.k))
                                 THEN ODGet(key_map, child.k)
                                 ELSE parent_instances[1].k])
             ELSE at,
             rel_spec, key_map, Tail(child_instances), parent_instances)

\* Variant: binding stops at the first child whose parent is not found.
RECURSIVE bind_children_StopAtMissing(_, _, _, _, _)
bind_children_StopAtMissing(at, rel_spec, key_map, child_instances, parent_instances) ==
  IF child_instances = <<>> THEN at
  ELSE LET child == Head(child_instances)
           found == ODHas(key_map, child.k) /\ ODGet(key_map, child.k) # <<>>
                    /\ ODHas(parent_instances, ODGet(key_map, child.k))
       IN  IF child.v.class # "" /\ ~found THEN at
           ELSE bind_children_StopAtMissing(
                  IF child.v.class # "" /\ found
                     /\ ODGet(parent_instances, ODGet(key_map, child.k)).class # ""
                  THEN ODSet(at, <<rel_spec.child_table, child.k, rel_spec.attr>>,
                             [table |-> rel_spec.parent_table, key |-> ODGet(key_map, child.k)])
                  ELSE at,
                  rel_spec, key_map, Tail(child_instances), parent_instances)

\* for child_key, child_obj in child_instances.items(): skip dicts; when the
\* parent key is resolved and among the parent's instances,
\* setattr(child_obj, spec.attr, parent_obj).  attrs maps (child table,
\* child key, attr) to the parent instance (its table and key).
RECURSIVE bind_children(_, _, _, _, _)
bind_children(at, rel_spec, key_map, child_instances, parent_instances) ==
  IF child_instances = <<>> THEN at
  ELSE LET child == Head(child_instances)
           found == ODHas(key_map, child.k) /\ ODGet(key_map, child.k) # <<>>
                    /\ ODHas(parent_instances, ODGet(key_map, child.k))
       IN  bind_children(
             IF child.v.class # "" /\ found
                /\ ODGet(parent_instances, ODGet(key_map, child.k)).class # ""
             THEN ODSet(at, <<rel_spec.child_table, child.k, rel_spec.attr>>,
                        [table |-> rel_spec.parent_table, key |-> ODGet(key_map, child.k)])
             ELSE at,
             rel_spec, key_map, Tail(child_instances), parent_instances)

\* Bind the relationships idxs, in order, over the instances by table.
RECURSIVE bind_each(_, _, _, _, _)
bind_each(at, idxs, specs, key_maps, insts) ==
  IF idxs = <<>> THEN at
  ELSE LET rel_spec == specs[Head(idxs)]
       IN  bind_each(bind_children(at, rel_spec, key_maps[Head(idxs)],
                                   insts[rel_spec.child_table],
                                   insts[rel_spec.parent_table]),
                     Tail(idxs), specs, key_maps, insts)

\* bind_many_to_one (etielle/relationships.py) with fail_on_missing=False:
\* every relationship whose two tables have results is bound; run does not
\* read what it returns.
bind_many_to_one(results, specs, key_maps) ==
  LET insts == [tb \in DOMAIN results |-> results[tb].instances]
      idxs  == SelectSeq([i \in 1..Len(specs) |-> i],
                         LAMBDA i : /\ DictHas(results, specs[i].child_table)
                                    /\ DictHas(results, specs[i].parent_table))
  IN  bind_each(<<>>, idxs, specs, key_maps, insts)

\* Handle relationship binding: build the ManyToOneSpecs, compute the key
\* maps on the first root, and without a session bind at once.
run_relationships ==
  /\ phase = "mapping"
  /\ root_queue = <<>>
  /\ pc = "idle"
  /\ IF _relationships # <<>>
     THEN LET specs == [i \in 1..Len(_relationships) |-> rel_spec_of(_relationships[i])]
              first_root == IF _roots # <<>> THEN _roots[1] ELSE M(<<>>, <<>>)
              key_maps == compute_relationship_keys(first_root, AllSpecs, specs)
          IN  /\ rel_specs' = specs
              /\ child_to_parent' = key_maps
              /\ attrs' = IF _session = "None"
                          THEN bind_many_to_one(all_raw_results, specs, key_maps)
                          ELSE attrs
     ELSE UNCHANGED <<rel_specs, child_to_parent, attrs>>
  /\ phase' = "convert"
  /\ UNCHANGED <<exec, conf, ip, nav, decl, root_queue, all_raw_results, tables, errors,
                 flush_order, fpos, session_log, raised>>

\* Variant: every table gets an entry in errors, empty when it has no error.
errors_of_AllTables(raw_results) ==
  [tb \in DOMAIN raw_results |->
     merge_errors(merge_errors(<<>>, raw_results[tb].update_errors),
                  raw_results[tb].finalize_errors)]

\* errors[table_name] = all_errors, for the tables that have errors
errors_of(raw_results) ==
  LET all_errors(tb) == merge_errors(merge_errors(<<>>, raw_results[tb].update_errors),
                                     raw_results[tb].finalize_errors)
      failing == { tb \in DOMAIN raw_results : all_errors(tb) # <<>> }
  IN  IF failing = {} THEN <<>> ELSE [tb \in failing |-> all_errors(tb)]

\* Convert to PipelineResult format
run_convert ==
  /\ phase = "convert"
  /\ tables' = [tb \in DOMAIN all_raw_results |-> all_raw_results[tb].instances]
  /\ errors' = errors_of(all_raw_results)
  /\ phase' = "check"
  /\ UNCHANGED <<exec, conf, ip, nav, decl, root_queue, all_raw_results, rel_specs,
                 child_to_parent, flush_order, fpos, session_log, attrs, raised>>

\* Variant: errors never make run raise.
fails_fast_Never(error_mode, errs) == FALSE

\* if self._error_mode == "fail_fast" and errors
fails_fast(error_mode, errs) == error_mode = "fail_fast" /\ errs # <<>>

\* raise ValueError for the first error
run_fail_fast ==
  /\ phase = "check"
  /\ fails_fast(_error_mode, errors)
  /\ raised' = "ValueError"
  /\ phase' = "raised"
  /\ UNCHANGED <<exec, conf, ip, nav, decl, runv>>

\* Variant: edges from parent to child.
_build_dependency_graph_Reversed ==
  LET parents == { _relationships[i].parent_table : i \in 1..Len(_relationships) }
  IN  IF parents = {} THEN <<>>
      ELSE [p \in parents |->
              { _relationships[i].child_table :
                  i \in { j \in 1..Len(_relationships) : _relationships[j].parent_table = p } }]

\* Variant: no edges.
_build_dependency_graph_Empty == <<>>

\* graph.setdefault(child, set()).add(parent) for every relationship
_build_dependency_graph ==
  LET children == { _relationships[i].child_table : i \in 1..Len(_relationships) }
  IN  IF children = {} THEN <<>>
      ELSE [c \in children |->
              { _relationships[i].parent_table :
                  i \in { j \in 1..Len(_relationships) : _relationships[j].child_table = c } }]

Orders(nodes) ==
  { f \in [1..Cardinality(nodes) -> nodes] :
      \A i, j \in 1..Cardinality(nodes) : i # j => f[i] # f[j] }

\* The tables a dependency graph names, as child or as parent.
GraphNodes(graph) == (DOMAIN graph) \cup UNION { graph[n] : n \in DOMAIN graph }

\* topological_sort (etielle/utils.py): the orders of the given nodes and the
\* nodes of the graph in which every node comes after the nodes it depends
\* on; none when the dependencies have a cycle, and then the call raises.
topological_sort(graph, all_nodes) ==
  { order \in Orders(all_nodes \cup GraphNodes(graph)) :
      \A i, j \in 1..Len(order) :
        (DictHas(graph, order[i]) /\ order[j] \in graph[order[i]]) => j < i }

\* flush_order = topological_sort(dep_graph, all_tables)
run_sequence ==
  /\ phase = "check"
  /\ ~fails_fast(_error_mode, errors)
  /\ _session # "None"
  /\ LET orders == topological_sort(_build_dependency_graph, DOMAIN tables)
     IN  IF orders = {}
         THEN /\ raised' = "CycleError"
              /\ phase' = "raised"
              /\ UNCHANGED flush_order
         ELSE /\ \E order \in orders : flush_order' = order
              /\ phase' = "add"
              /\ UNCHANGED raised
  /\ fpos' = 1
  /\ UNCHANGED <<exec, conf, ip, nav, decl, root_queue, all_raw_results, rel_specs,
                 child_to_parent, tables, errors, session_log, attrs>>

AddCall(table_name, k) == [op |-> "add", table |-> table_name, key |-> k]

FlushCall == [op |-> "flush", table |-> "", key |-> <<>>]

\* Variant: the instances are added and no flush follows.
add_and_flush_NoFlush(log, table_name, instances) ==
  LET objs == SelectSeq(instances, LAMBDA e : e.v.class # "")
  IN  log \o [i \in 1..Len(objs) |-> AddCall(table_name, objs[i].k)]

\* session.add(instance) for every instance that is not a dict, then
\* session.flush()
add_and_flush(log, table_name, instances) ==
  LET objs == SelectSeq(instances, LAMBDA e : e.v.class # "")
  IN  log \o [i \in 1..Len(objs) |-> AddCall(table_name, objs[i].k)] \o <<FlushCall>>

\* Add and flush this table's instances
run_add_flush ==
  /\ phase = "add"
  /\ fpos <= Len(flush_order)
  /\ IF ~DictHas(tables, flush_order[fpos])
     THEN /\ fpos' = fpos + 1
          /\ UNCHANGED <<phase, session_log>>
     ELSE /\ session_log' = add_and_flush(session_log, flush_order[fpos],
                                          tables[flush_order[fpos]])
          /\ phase' = "bind"
          /\ UNCHANGED fpos
  /\ UNCHANGED <<exec, conf, ip, nav, decl, root_queue, all_raw_results, rel_specs,
                 child_to_parent, tables, errors, flush_order, attrs, raised>>

\* Bind relationships where this table is the parent
run_bind ==
  /\ phase = "bind"
  /\ LET table_name == flush_order[fpos]
         idxs == SelectSeq([i \in 1..Len(rel_specs) |-> i],
                           LAMBDA i : /\ rel_specs[i].parent_table = table_name
                                      /\ DictHas(tables, rel_specs[i].child_table))
     IN  attrs' = bind_each(attrs, idxs, rel_specs, child_to_parent, tables)
  /\ fpos' = fpos + 1
  /\ phase' = "add"
  /\ UNCHANGED <<exec, conf, ip, nav, decl, root_queue, all_raw_results, rel_specs,
                 child_to_parent, tables, errors, flush_order, session_log, raised>>

\* return PipelineResult(tables, errors)
run_return ==
  /\ \/ phase = "check" /\ ~fails_fast(_error_mode, errors) /\ _session = "None"
     \/ phase = "add" /\ fpos > Len(flush_order)
  /\ phase' = "returned"
  /\ UNCHANGED <<exec, conf, ip, nav, decl, runv, raised>>

(***************************************************************************)
(* Inputs of the pipelines explored: payloads and chains of calls.         *)
(***************************************************************************)
MaxUsers == 2   \* longest list / mapping under "users"

MaxPosts == 2   \* longest list under "posts"

Post(id, uid, title) == M(<<S("id"), S("uid"), S("title")>>, <<id, uid, title>>)

\* Users: a complete one, one without a name, one repeating an id.
PUsers == { Rec(I(1), S("a")), Rec(I(2), Null), Rec(I(1), S("b")) }

\* Posts: of user 1, of user 2, of nobody.
PPosts == { Post(I(10), I(1), S("t")), Post(I(11), I(2), S("t")), Post(I(12), Null, S("u")) }

UsersPosts(us, ps) == M(<<S("users"), S("posts")>>, <<us, ps>>)

ListRoots ==
  { <<UsersPosts(L(us), L(<<>>))>> : us \in SeqsUpTo(PUsers, MaxUsers) }

TwoTableRoots ==
  { <<UsersPosts(L(us), L(ps))>> :
      us \in SeqsUpTo(PUsers, MaxUsers), ps \in SeqsUpTo(PPosts, MaxPosts) }

\* The same users with no post, one post, or two posts in file order.
FewPostsRoots ==
  { <<UsersPosts(L(us), L(ps))>> :
      us \in SeqsUpTo(PUsers, MaxUsers),
      ps \in { <<>>, <<Post(I(10), I(1), S("t"))>>,
               <<Post(I(11), I(2), S("t")), Post(I(10), I(1), S("t"))>> } }

MapRoots ==
  { <<UsersPosts(m, L(<<>>))>> : m \in MapsUpTo({S("Q1"), S("Q2"), I(3)}, PUsers, MaxUsers) }

Name == FluentField("name", GetName, "")

Title == FluentField("title", get(<<S("title")>>), "")

TempId == TempField("id", GetId)

TempUid == TempField("uid", get(<<S("uid")>>))

By(child, parent) == <<[k |-> child, v |-> parent]>>

ToUsers == <<Goto(Users), Each>>

ToPosts == <<GotoRoot(0), Goto(Posts), Each>>

MapUser == MapTo(TableClass("User"), <<Name, TempId>>, <<>>, "")

MapPost == MapTo(TableClass("Post"), <<Title, TempId, TempUid>>, <<>>, "")

\* The same keyed by id alone: a post of nobody is still built.
MapPostById == MapTo(TableClass("Post"), <<Title, TempId, TempUid>>, <<"id">>, "")

Pipelines ==
  << \* one model class, persisted and not
     [calls |-> ToUsers \o <<MapUser, Load, Run>>, roots |-> ListRoots],
     [calls |-> ToUsers \o <<MapUser, Run>>, roots |-> ListRoots \cup MapRoots],
     \* a child table linked to its parent, persisted and not
     [calls |-> ToUsers \o <<MapUser>> \o ToPosts
                \o <<MapPostById, LinkTo("User", By("uid", "id")), Load, Run>>,
      roots |-> TwoTableRoots],
     [calls |-> ToUsers \o <<MapUser>> \o ToPosts
                \o <<MapPostById, LinkTo("User", By("uid", "id")), Run>>,
      roots |-> TwoTableRoots],
     \* the child declared before its parent
     [calls |-> <<Goto(Posts), Each, MapPost, LinkTo("User", By("uid", "id")),
                  GotoRoot(0)>> \o ToUsers \o <<MapUser, Load, Run>>,
      roots |-> FewPostsRoots],
     \* two tables that link to each other
     [calls |-> ToUsers
                \o <<MapTo(TableClass("User"),
                           <<Name, TempId, TempField("pid", literal(I(10)))>>, <<>>, ""),
                     LinkTo("Post", By("pid", "id"))>>
                \o ToPosts \o <<MapPost, LinkTo("User", By("uid", "id")), Load, Run>>,
      roots |-> FewPostsRoots],
     \* two tables without a relationship
     [calls |-> ToUsers \o <<MapUser>> \o ToPosts \o <<MapPost, Load, Run>>,
      roots |-> FewPostsRoots],
     \* an emission that asks for fail_fast by itself
     [calls |-> ToUsers \o <<MapTo(TableClass("User"), <<Name, TempId>>, <<>>, "fail_fast")>>
                \o ToPosts \o <<MapPost, Load, Run>>,
      roots |-> FewPostsRoots],
     \* neither join_on nor a TempField, iterating and at the root
     [calls |-> ToUsers \o <<MapTo(TableClass("User"), <<Name>>, <<>>, ""), Load, Run>>,
      roots |-> ListRoots \cup MapRoots],
     [calls |-> <<MapTo(TableClass("User"), <<Name>>, <<>>, ""), Load, Run>>,
      roots |-> { <<Rec(I(1), S("a"))>> }],
     \* join_on naming a Field
     [calls |-> ToUsers \o <<MapTo(TableClass("User"), <<FluentField("name", key, "")>>,
                                   <<"name">>, ""), Load, Run>>,
      roots |-> MapRoots],
     [calls |-> ToUsers \o <<MapTo(TableName("users"),
                                   <<FluentField("id", GetId, ""), Name>>, <<"name">>, ""), Run>>,
      roots |-> ListRoots],
     \* a table given by name: plain rows, with a session
     [calls |-> ToUsers \o <<MapTo(TableName("users"), <<Name, TempId>>, <<>>, ""), Load, Run>>,
      roots |-> ListRoots],
     \* a field the model class does not have
     [calls |-> ToUsers \o <<MapTo(TableClass("User"),
                                   <<Name, FluentField("nick", GetName, ""), TempId>>, <<>>, ""),
                             Load, Run>>,
      roots |-> ListRoots],
     \* a parent keyed by its name and linked by its Field id
     [calls |-> ToUsers
                \o <<MapTo(TableClass("User"),
                           <<Name, FluentField("id", GetId, ""), TempField("k", GetName)>>,
                           <<>>, "")>>
                \o ToPosts \o <<MapPostById, LinkTo("User", By("uid", "id")), Load, Run>>,
      roots |-> FewPostsRoots],
     \* a merge policy without a model class
     [calls |-> ToUsers \o <<MapTo(TableName("counts"),
                                   <<FluentField("count", literal(I(1)), "AddPolicy"), TempId>>,
                                   <<>>, ""), Run>>,
      roots |-> ListRoots]
  >>

\* No run_mapping is under way.
NoMapping ==
  /\ root = Null
  /\ spec = MappingSpec(<<>>)
  /\ pc = "idle"
  /\ items = <<>>
  /\ pos = 1
  /\ table_to_index = <<>>
  /\ instance_tables = <<>>
  /\ builder_updates = [b \in BuilderIds |-> <<>>]
  /\ result = <<>>

\* etl(*roots, errors=...) has returned a new builder; the caller's chain of
\* calls is about to start.
PipeInit ==
  /\ NoMapping
  /\ \E i \in 1..Len(Pipelines) :
       /\ program = Pipelines[i].calls
       /\ _roots \in Pipelines[i].roots
  /\ _error_mode \in {"collect", "fail_fast"}
  /\ ip = 1
  /\ _current_root_index = 0
  /\ _current_path = <<>>
  /\ _iteration_depth = 0
  /\ _iteration_points = <<>>
  /\ _emissions = <<>>
  /\ _relationships = <<>>
  /\ _session = "None"
  /\ phase = "build"
  /\ root_queue = <<>>
  /\ all_raw_results = <<>>
  /\ rel_specs = <<>>
  /\ child_to_parent = <<>>
  /\ tables = <<>>
  /\ errors = <<>>
  /\ flush_order = <<>>
  /\ fpos = 1
  /\ session_log = <<>>
  /\ attrs = <<>>
  /\ raised = ""

PipeNext ==
  \/ goto_root
  \/ goto
  \/ each
  \/ map_to
  \/ link_to
  \/ load
  \/ run_begin
  \/ run_root
  \/ SkipEmission
  \/ RowEmission
  \/ InstanceEmission
  \/ Materialize
  \/ run_merge
  \/ run_relationships
  \/ run_convert
  \/ run_fail_fast
  \/ run_sequence
  \/ run_add_flush
  \/ run_bind
  \/ run_return

PipeSpec == PipeInit /\ [][PipeNext]_vars

(***************************************************************************)
(* Pipelines over several roots, and chains of calls that navigate between *)
(* map_to and link_to, nest each() or make a call raise.                   *)
(***************************************************************************)
Tags == <<S("tags")>>

\* A count that adds up, next to a name that does not.
MapCount ==
  MapTo(TableName("counts"),
        <<FluentField("count", literal(I(1)), "AddPolicy"), Name, TempId>>, <<>>, "")

MapRow == MapTo(TableName("users"), <<Name, TempId>>, <<>>, "")

\* Two roots, each with its own users.
TwoUserRoots ==
  { <<UsersPosts(L(a), L(<<>>)), UsersPosts(L(b), L(<<>>))>> :
      a \in SeqsUpTo(PUsers, MaxUsers), b \in SeqsUpTo(PUsers, MaxUsers) }

\* The users and some posts in the first root, the posts to load in the
\* second; or a single root.
CrossRoots ==
  LET firsts == { <<>>, <<Post(I(10), I(2), S("t"))>>,
                  <<Post(I(11), I(1), S("t")), Post(I(10), I(1), S("t"))>> }
  IN  { <<UsersPosts(L(us), L(p0)), UsersPosts(L(<<>>), L(p1))>> :
          us \in SeqsUpTo(PUsers, MaxUsers), p0 \in firsts, p1 \in SeqsUpTo(PPosts, MaxPosts) }
      \cup { <<UsersPosts(L(us), L(<<>>))>> : us \in SeqsUpTo(PUsers, MaxUsers) }

RootsPipelines ==
  << \* the same table fed from two roots, with and without a merge policy
     [calls |-> ToUsers \o <<MapCount, GotoRoot(1)>> \o ToUsers \o <<MapCount, Run>>,
      roots |-> TwoUserRoots],
     [calls |-> ToUsers \o <<MapRow, GotoRoot(1)>> \o ToUsers \o <<MapRow, Run>>,
      roots |-> TwoUserRoots],
     \* parents in the first root, children in the second (if there is one)
     [calls |-> ToUsers \o <<MapUser, GotoRoot(1), Goto(Posts), Each, MapPostById,
                            LinkTo("User", By("uid", "id")), Load, Run>>,
      roots |-> CrossRoots],
     \* link_to with no map_to before it
     [calls |-> ToUsers \o <<LinkTo("User", By("uid", "id")), MapUser, Run>>,
      roots |-> ListRoots],
     \* each() under each(), and navigation between map_to and link_to
     [calls |-> ToUsers \o <<MapUser>> \o ToPosts
                \o <<MapPostById, Goto(Tags), Each, LinkTo("User", By("uid", "id")),
                     MapTo(TableName("tags"), <<Title, TempId>>, <<>>, ""),
                     GotoRoot(0), Load, Run>>,
      roots |-> FewPostsRoots]
  >>

RootsInit ==
  /\ NoMapping
  /\ \E i \in 1..Len(RootsPipelines) :
       /\ program = RootsPipelines[i].calls
       /\ _roots \in RootsPipelines[i].roots
  /\ _error_mode \in {"collect", "fail_fast"}
  /\ ip = 1
  /\ _current_root_index = 0
  /\ _current_path = <<>>
  /\ _iteration_depth = 0
  /\ _iteration_points = <<>>
  /\ _emissions = <<>>
  /\ _relationships = <<>>
  /\ _session = "None"
  /\ phase = "build"
  /\ root_queue = <<>>
  /\ all_raw_results = <<>>
  /\ rel_specs = <<>>
  /\ child_to_parent = <<>>
  /\ tables = <<>>
  /\ errors = <<>>
  /\ flush_order = <<>>
  /\ fpos = 1
  /\ session_log = <<>>
  /\ attrs = <<>>
  /\ raised = ""

RootsSpec == RootsInit /\ [][PipeNext]_vars

(***************************************************************************)
(* Properties.                                                             *)
(***************************************************************************)
Done == SubSeq(items, 1, pos - 1)

IsNone(v) == v.t = "null"

IsEmptyString(v) == v.t = "str" /\ v.s = ""

HasNullOrEmptyPart(parts) == \E i \in 1..Len(parts) : IsNone(parts[i]) \/ IsEmptyString(parts[i])

\* The composite key the item computes, and whether the item gets through.
KeyOf(it) == [i \in 1..Len(it.emit.join_keys) |-> Apply(it.emit.join_keys[i], it.ctx)]

Produces(it) == ~HasNullOrEmptyPart(KeyOf(it))

Declares(emit, f) == \E i \in 1..Len(emit.fields) : emit.fields[i].name = f

\* The value the item computes for field f (the last declaration of f wins).
ValueOf(it, f) ==
  LET fi == CHOOSE i \in 1..Len(it.emit.fields) :
              /\ it.emit.fields[i].name = f
              /\ \A j \in (i + 1)..Len(it.emit.fields) : it.emit.fields[j].name # f
  IN  Apply(it.emit.fields[fi].transform, it.ctx)

Max(ns) == CHOOSE n \in ns : \A m \in ns : m <= n

\* Processed items of the given emit type that wrote field f of key k of table tb.
Writers(type, tb, k, f) ==
  { j \in 1..(pos - 1) :
      /\ items[j].emit.type = type
      /\ items[j].emit.table = tb
      /\ Produces(items[j])
      /\ KeyOf(items[j]) = k
      /\ Declares(items[j].emit, f) }

\* C1: an emit (row or instance) whose composite join key has a None or
\* empty-string component is a no-op: the row index, the shadow accumulators
\* and policy sets, the builders and the result stay exactly as they were,
\* and the loop moves on to the next emit.
C1_SkippedEmissionIsNoOp ==
  [][(InLoop /\ HasNullOrEmptyPart(KeyOf(Cur)))
       => /\ UNCHANGED <<table_to_index, instance_tables, builder_updates, result, pc>>
          /\ pos' = pos + 1]_vars

\* An instance emit has just been skipped (second part of the key is "" or
\* None) after an earlier Context had already updated the same table.
C1_Witness ==
  /\ pc = "loop"
  /\ pos > 2
  /\ items[pos - 1].emit.type = "InstanceEmit"
  /\ HasNullOrEmptyPart(KeyOf(items[pos - 1]))
  /\ DictHas(instance_tables, items[pos - 1].emit.table)
  /\ \E j \in 1..(pos - 1) : IsEmptyString(KeyOf(items[j])[1])

\* C2: on the row path every field of every key holds the value computed from
\* the last Context (traversals in declared order, Contexts in traversal
\* order) that produced the key with an emission declaring the field; a later
\* None replaces an earlier value.
C2_LastContextWins ==
  \A j \in 1..(pos - 1) :
    (items[j].emit.type = "TableEmit" /\ Produces(items[j])) =>
      LET tb == items[j].emit.table
          k  == KeyOf(items[j])
      IN  /\ DictHas(table_to_index, tb)
          /\ ODHas(table_to_index[tb], k)
          /\ \A i \in 1..Len(items[j].emit.fields) :
               LET f == items[j].emit.fields[i].name
               IN  /\ DictHas(ODGet(table_to_index[tb], k), f)
                   /\ ODGet(table_to_index[tb], k)[f]
                        = ValueOf(items[Max(Writers("TableEmit", tb, k, f))], f)

\* A later Context has replaced a non-None name by None.
C2_Witness ==
  \E j \in 1..(pos - 1) :
    /\ items[j].emit.type = "TableEmit"
    /\ Produces(items[j])
    /\ Declares(items[j].emit, "name")
    /\ ~IsNone(ValueOf(items[j], "name"))
    /\ ODHas(table_to_index[items[j].emit.table], KeyOf(items[j]))
    /\ IsNone(ODGet(table_to_index[items[j].emit.table], KeyOf(items[j]))["name"])

\* Keys and field names that the whole run writes to a row table.
KeysProduced(tb) ==
  { KeyOf(items[j]) : j \in { i \in 1..Len(items) :
      items[i].emit.type = "TableEmit" /\ items[i].emit.table = tb /\ Produces(items[i]) } }

FieldsWritten(tb, k) ==
  { f \in {"name", "index", "last", "key", "id"} :
      \E j \in 1..Len(items) :
        /\ items[j].emit.type = "TableEmit" /\ items[j].emit.table = tb
        /\ Produces(items[j]) /\ KeyOf(items[j]) = k /\ Declares(items[j].emit, f) }

RowTables == { items[j].emit.table : j \in { i \in 1..Len(items) :
                 items[i].emit.type = "TableEmit" /\ Produces(items[i]) } }

\* C3: after run_mapping each row table holds exactly one row per distinct
\* composite key that received a non-skipped emission, and the row has every
\* field written by any emission that produced the key.
C3_OneRowPerKeyAllFields ==
  pc = "done" =>
    /\ RowTables \subseteq DOMAIN result
    /\ \A tb \in RowTables :
         /\ Len(result[tb]) = Cardinality(KeysProduced(tb))
         /\ \A k \in KeysProduced(tb) :
              \E i \in 1..Len(result[tb]) :
                /\ table_to_index[tb][i].k = k
                /\ result[tb][i] = table_to_index[tb][i].v
                /\ FieldsWritten(tb, k) \subseteq DOMAIN result[tb][i]
                /\ \A i2 \in 1..Len(result[tb]) : table_to_index[tb][i2].k = k => i2 = i

\* A finished run in which one row keeps "name" from an earlier emission next
\* to "index" and "last" from later emissions that do not declare "name".
C3_Witness ==
  /\ pc = "done"
  /\ DictHas(result, "users")
  /\ Len(result["users"]) = 2
  /\ \E i \in 1..2 : {"name", "index", "last"} \subseteq DOMAIN result["users"][i]

\* C4: materialisation gives a row whose key has exactly one component and
\* that has no "id" field an "id" equal to that component; a row that has an
\* "id" keeps it, and a row with a longer key is returned as it is.
C4_IdInjection ==
  [][(pc = "loop" /\ pc' = "done") =>
       \A tb \in DOMAIN table_to_index :
         /\ DictHas(result', tb)
         /\ DictHas(instance_tables, tb) \/ Len(result'[tb]) = Len(table_to_index[tb])
         /\ ~DictHas(instance_tables, tb) =>
              \A i \in 1..Len(table_to_index[tb]) :
                LET k   == table_to_index[tb][i].k
                    old == table_to_index[tb][i].v
                    new == result'[tb][i]
                IN  IF Len(k) = 1 /\ "id" \notin DOMAIN old
                    THEN /\ DOMAIN new = (DOMAIN old) \cup {"id"}
                         /\ new["id"] = k[1]
                         /\ \A f \in DOMAIN old : new[f] = old[f]
                    ELSE new = old]_vars

\* A finished run with an injected id, an explicit id that differs from the
\* key and was kept, and a two-part key without id.
C4_Witness ==
  /\ pc = "done"
  /\ {"plain", "named", "pairs"} \subseteq DOMAIN result
  /\ \E i \in 1..Len(result["plain"]) :
       result["plain"][i]["id"] = table_to_index["plain"][i].k[1]
  /\ \E i \in 1..Len(result["named"]) :
       result["named"][i]["id"] # table_to_index["named"][i].k[1]
  /\ \E i \in 1..Len(result["pairs"]) : "id" \notin DOMAIN result["pairs"][i]

(***************************************************************************)
(* Traversal properties.  A level of a traversal is one application of the *)
(* iteration branch: the outer container under the base Context, or, with  *)
(* an inner path, the inner container under one outer Context.             *)
(***************************************************************************)
Range(seq) == { seq[i] : i \in 1..Len(seq) }

Traversals == Range(spec.traversals)

OuterContexts(tr) ==
  yield_from_container(root, _iter_nodes(root, tr.path).base_ctx,
                       _iter_nodes(root, tr.path).container, tr.iterate_items)

\* The levels whose Contexts the traversal yields.
Levels(tr) ==
  IF tr.inner_path = <<>>
  THEN { [parent |-> _iter_nodes(root, tr.path).base_ctx,
          container |-> _resolve_path(root, tr.path),
          mapping_mode |-> tr.iterate_items] }
  ELSE { [parent |-> o,
          container |-> _resolve_path(o.node, tr.inner_path),
          mapping_mode |-> (tr.inner_iterate_items = "True")] : o \in Range(OuterContexts(tr)) }

\* The Contexts the traversal yields under a parent Context, in order.
YieldedUnder(tr, parent) ==
  SelectSeq(_iter_traversal_nodes(root, tr), LAMBDA c : c.parent = <<parent>>)

\* C5: sequence-elements mode over a list of length N yields exactly N
\* Contexts in list order, the i-th with index i (from 0), no key, the i-th
\* element as node and the parent path extended by i.
C5_SequenceMode ==
  \A tr \in Traversals : \A lv \in Levels(tr) :
    (~lv.mapping_mode /\ lv.container.t = "list") =>
      LET ys == YieldedUnder(tr, lv.parent)
          N  == Len(lv.container.c)
      IN  /\ Len(ys) = N
          /\ \A i \in 1..N :
               /\ ys[i].index.t = "int" /\ ys[i].index.n = i - 1
               /\ IsNone(ys[i].key)
               /\ ys[i].node = lv.container.c[i]
               /\ ys[i].path = lv.parent.path \o <<I(i - 1)>>

\* The third element of a list (index 2) has been processed.
C5_Witness ==
  /\ pos > 3
  /\ items[pos - 1].ctx.index = I(2)
  /\ items[pos - 1].ctx.path = <<S("users"), I(2)>>
  /\ items[pos - 1].ctx.node \in Leaves

\* The entries of a mapping with their order changed by the permutation p.
Permuted(m, p) == M([i \in 1..Len(m.ks) |-> m.ks[p[i]]], [i \in 1..Len(m.ks) |-> m.c[p[i]]])

View(c) == [key |-> c.key, index |-> c.index, node |-> c.node, path |-> c.path]

\* C6: mapping-entries mode over a mapping yields exactly one Context per
\* entry, with the stringified entry key as key (an int key 1 becomes "1"),
\* no index, the entry value as node and the parent path extended by the
\* stringified key; the set of Contexts is the same for every order of the
\* entries.
C6_MappingMode ==
  \A tr \in Traversals : \A lv \in Levels(tr) :
    (lv.mapping_mode /\ lv.container.t = "map") =>
      LET ys == YieldedUnder(tr, lv.parent)
          N  == Len(lv.container.ks)
      IN  /\ Len(ys) = N
          /\ \A i \in 1..N :
               /\ ys[i].key.t = "str"
               /\ ys[i].key.s = Str(lv.container.ks[i])
               /\ lv.container.ks[i].t = "str" => ys[i].key = lv.container.ks[i]
               /\ lv.container.ks[i] = I(1) => ys[i].key = S("1")
               /\ IsNone(ys[i].index)
               /\ ys[i].node = lv.container.c[i]
               /\ ys[i].path = lv.parent.path \o <<ys[i].key>>
          /\ \A p \in Permutations(1..N) :
               { View(c) : c \in Range(yield_from_container(root, lv.parent,
                                         Permuted(lv.container, p), TRUE)) }
                 = { View(c) : c \in Range(ys) }

\* An entry with the int key 1 has been processed as the second of at least
\* two entries.
C6_Witness ==
  /\ pos > 2
  /\ items[pos - 1].ctx.key = S("1")
  /\ items[pos - 1].ctx.path = <<S("users"), S("1")>>
  /\ I(1) \in Range(_resolve_path(root, Users).ks)
  /\ items[pos - 2].ctx.key = S("u1")

\* The container of the level is not of the kind its mode asks for.
WrongKind(lv) ==
  \/ lv.mapping_mode /\ lv.container.t # "map"
  \/ ~lv.mapping_mode /\ lv.container.t # "list"

RECURSIVE SumLen(_)
SumLen(ss) == IF ss = <<>> THEN 0 ELSE Len(Head(ss)) + SumLen(Tail(ss))

\* The Contexts of the inner container of one outer Context.
InnerOf(tr, o) ==
  yield_from_container(root, o, _resolve_path(o.node, tr.inner_path),
                       tr.inner_iterate_items = "True")

OuterPos(tr, c) == CHOOSE j \in 1..Len(OuterContexts(tr)) : <<OuterContexts(tr)[j]>> = c.parent

\* C8: with an inner path the traversal yields exactly the Contexts of the
\* inner container of each outer Context, in outer order then inner order;
\* no outer Context is yielded, every yielded Context has its outer Context
\* as parent, and the count is the sum of the inner counts.
C8_InnerPath ==
  \A tr \in Traversals :
    tr.inner_path # <<>> =>
      LET cs    == _iter_traversal_nodes(root, tr)
          outer == OuterContexts(tr)
      IN  /\ Len(cs) = SumLen([j \in 1..Len(outer) |-> InnerOf(tr, outer[j])])
          /\ \A i \in 1..Len(cs) :
               /\ cs[i] \notin Range(outer)
               /\ cs[i].parent # <<>>
               /\ cs[i].parent[1] \in Range(outer)
          /\ \A i, i2 \in 1..Len(cs) : i < i2 => OuterPos(tr, cs[i]) <= OuterPos(tr, cs[i2])
          /\ \A j \in 1..Len(outer) : YieldedUnder(tr, outer[j]) = InnerOf(tr, outer[j])

\* Inner elements of two different outer elements have been processed, the
\* second outer element contributing its own second element.
C8_Witness ==
  /\ pos > 3
  /\ spec.traversals[1].inner_path # <<>>
  /\ items[pos - 1].ctx.parent[1].path = <<S("groups"), I(1)>>
  /\ items[pos - 1].ctx.index = I(1)
  /\ items[1].ctx.parent[1].path = <<S("groups"), I(0)>>

(***************************************************************************)
(* Instance path properties.                                               *)
(***************************************************************************)
ShadowOf(tb) == IF DictHas(instance_tables, tb) THEN instance_tables[tb].shadow ELSE <<>>

RowsOf(tb) == IF DictHas(table_to_index, tb) THEN table_to_index[tb] ELSE <<>>

\* The value of field f in the last update(k, updates) call that carries f.
ForwardedCalls(calls, k, f) ==
  { c \in 1..Len(calls) : calls[c].key = k /\ f \in DOMAIN calls[c].updates }

LastForwarded(calls, k, f) == calls[Max(ForwardedCalls(calls, k, f))].updates[f]

\* The loop stands between two Contexts (or is over).
AtContextBoundary == pc = "loop" /\ (pos > Len(items) \/ items[pos].ei = 1)

\* A traversal that runs the same emission twice: as rows, then as instances
\* without merge policies.
Twin(tr) ==
  /\ Len(spec.traversals) = 1
  /\ Len(tr.emits) = 2
  /\ tr.emits[1].type = "TableEmit"
  /\ tr.emits[2].type = "InstanceEmit"
  /\ tr.emits[1].fields = tr.emits[2].fields
  /\ tr.emits[1].join_keys = tr.emits[2].join_keys
  /\ DOMAIN tr.emits[2].policies = {}

\* C9: for an InstanceEmit table without merge policies, after any sequence
\* of Contexts, the field values forwarded to the builder (and kept in the
\* shadow) for each key equal field by field what the row path holds for the
\* same sequence, which is the value from the last Context that produced the
\* key.
C9_InstanceEqualsRow ==
  \A tr \in Traversals :
    (Twin(tr) /\ AtContextBoundary) =>
      LET rows  == RowsOf(tr.emits[1].table)
          tb    == tr.emits[2].table
          calls == builder_updates[tr.emits[2].builder]
      IN  /\ ShadowOf(tb) = rows
          /\ \A i \in 1..Len(rows) : \A f \in DOMAIN rows[i].v :
               /\ ForwardedCalls(calls, rows[i].k, f) # {}
               /\ LastForwarded(calls, rows[i].k, f) = rows[i].v[f]
               /\ rows[i].v[f]
                    = ValueOf(items[Max(Writers("InstanceEmit", tb, rows[i].k, f))], f)
          /\ \A c \in 1..Len(calls) :
               /\ ODHas(rows, calls[c].key)
               /\ DOMAIN calls[c].updates \subseteq DOMAIN ODGet(rows, calls[c].key)

\* Two Contexts have updated one key of the instance table, the second
\* replacing a name by None.
C9_Witness ==
  /\ AtContextBoundary
  /\ \E tr \in Traversals : Twin(tr)
  /\ Len(builder_updates["b1"]) >= 2
  /\ \E c \in 2..Len(builder_updates["b1"]) :
       /\ builder_updates["b1"][c].key = builder_updates["b1"][1].key
       /\ ~IsNone(builder_updates["b1"][1].updates["name"])
       /\ IsNone(builder_updates["b1"][c].updates["name"])
       /\ IsNone(ODGet(ShadowOf("insts"), builder_updates["b1"][c].key)["name"])

InstanceEmits ==
  UNION { { tr.emits[i] : i \in { e \in 1..Len(tr.emits) : tr.emits[e].type = "InstanceEmit" } }
          : tr \in Traversals }

\* Every InstanceEmit of the table declares policy p for field f.
Governed(tb, f, p) ==
  \A e \in InstanceEmits :
    e.table = tb => (f \in DOMAIN e.policies /\ e.policies[f] = p)

\* The values the processed Contexts produced for field f of key k, in order.
ValuesFor(tb, k, f) ==
  LET js == SelectSeq([j \in 1..(pos - 1) |-> j],
                      LAMBDA j : j \in Writers("InstanceEmit", tb, k, f))
  IN  [i \in 1..Len(js) |-> ValueOf(items[js[i]], f)]

\* Left fold of the policy, starting from an absent previous value.
RECURSIVE FoldPolicy(_, _)
FoldPolicy(p, vals) ==
  IF vals = <<>> THEN Null
  ELSE PolicyMerge(p, FoldPolicy(p, SubSeq(vals, 1, Len(vals) - 1)), vals[Len(vals)])

UserIds ==
  IF _resolve_path(root, Users).t = "list"
  THEN [i \in 1..Len(_resolve_path(root, Users).c) |->
          _resolve_path(_resolve_path(root, Users).c[i], <<S("id")>>)]
  ELSE <<>>

\* C10: for a field governed by a merge policy the value held (and forwarded
\* to the builder) for a key is the left fold of the policy over the values
\* the Contexts produced for that key, in traversal order, from an absent
\* previous value, at every update: accumulate-sum over [1,1,1] is 3, a
\* constant 1 keyed by id over ids 1,1,2 counts {1:2, 2:1}, and
\* first-non-null-wins over [None, "a", "b"] is "a".
C10_PolicyFold ==
  \A tb \in DOMAIN instance_tables :
    LET shadow == instance_tables[tb].shadow
        calls  == builder_updates[instance_tables[tb].builder]
    IN  \A i \in 1..Len(shadow) : \A f \in DOMAIN shadow[i].v :
          \A p \in {"AddPolicy", "FirstNonNullPolicy"} :
            Governed(tb, f, p) =>
              LET vals == ValuesFor(tb, shadow[i].k, f)
                  held == shadow[i].v[f]
              IN  /\ held = FoldPolicy(p, vals)
                  /\ LastForwarded(calls, shadow[i].k, f) = held
                  /\ (p = "AddPolicy" /\ vals = <<I(1), I(1), I(1)>>) => held = I(3)
                  /\ (p = "AddPolicy" /\ vals = <<I(1), I(1)>>) => held = I(2)
                  /\ (p = "AddPolicy" /\ vals = <<I(1)>>) => held = I(1)
                  /\ (p = "FirstNonNullPolicy" /\ vals = <<Null, S("a"), S("b")>>)
                       => held = S("a")
                  /\ (p = "AddPolicy" /\ pos > Len(items) /\ f = "count"
                        /\ UserIds = <<I(1), I(1), I(2)>>)
                       => /\ Len(shadow) = 2
                          /\ ODGet(shadow, <<I(1)>>)["count"] = I(2)
                          /\ ODGet(shadow, <<I(2)>>)["count"] = I(1)

\* Three Contexts have updated key 1: the counter stands at 3 and the
\* first-non-null field at "a" after the values None, "a", "b".
C10_Witness ==
  /\ DictHas(instance_tables, "counts")
  /\ ODHas(ShadowOf("counts"), <<I(1)>>)
  /\ ValuesFor("counts", <<I(1)>>, "count") = <<I(1), I(1), I(1)>>
  /\ ValuesFor("counts", <<I(1)>>, "first") = <<Null, S("a"), S("b")>>
  /\ ODGet(ShadowOf("counts"), <<I(1)>>)["count"] = I(3)
  /\ ODGet(ShadowOf("counts"), <<I(1)>>)["first"] = S("a")
  /\ ODGet(ShadowOf("counts"), <<I(1)>>)["name"] = S("b")

(***************************************************************************)
(* Several instance emits on one table.                                    *)
(***************************************************************************)
\* The emits of the spec in declaration order.
DeclaredEmits == FlattenSeq([ti \in 1..Len(spec.traversals) |-> spec.traversals[ti].emits])

\* The InstanceEmits of table tb that declare a policy for field f.
Declaring(tb, f) ==
  { i \in 1..Len(DeclaredEmits) :
      /\ DeclaredEmits[i].type = "InstanceEmit"
      /\ DeclaredEmits[i].table = tb
      /\ f \in DOMAIN DeclaredEmits[i].policies }

\* Two emits of the table declare different policies for the field.
Contested(tb, f) ==
  \E i, j \in Declaring(tb, f) : DeclaredEmits[i].policies[f] # DeclaredEmits[j].policies[f]

LaterPolicy(tb, f) == DeclaredEmits[Max(Declaring(tb, f))].policies[f]

FirstEmitOf(tb) ==
  DeclaredEmits[CHOOSE i \in 1..Len(DeclaredEmits) :
                  /\ DeclaredEmits[i].table = tb
                  /\ \A j \in 1..(i - 1) : DeclaredEmits[j].table # tb]

\* C11: the InstanceEmits of one table share one builder, one shadow and one
\* policy set, and when two of them declare different policies for a field,
\* every merge of that field, whichever emit triggers it and at whichever
\* Context, uses the policy of the later-declared emit: the value held and
\* forwarded for a key is the fold of that policy over the values produced.
C11_LaterDeclaredPolicyWins ==
  \A tb \in DOMAIN instance_tables :
    LET shadow == instance_tables[tb].shadow
        calls  == builder_updates[instance_tables[tb].builder]
    IN  /\ instance_tables[tb].builder = FirstEmitOf(tb).builder
        /\ \A i \in 1..Len(shadow) : \A f \in DOMAIN shadow[i].v :
              Contested(tb, f) =>
                /\ shadow[i].v[f]
                     = FoldPolicy(LaterPolicy(tb, f), ValuesFor(tb, shadow[i].k, f))
                /\ LastForwarded(calls, shadow[i].k, f) = shadow[i].v[f]

(***************************************************************************)
(* Properties of the pipeline (PipeSpec).                                  *)
(***************************************************************************)
\* run has computed a flush order and is persisting, or has persisted.
Sequenced == _session # "None" /\ phase \in {"add", "bind", "returned"}

PositionsOf(order, tb) == { i \in 1..Len(order) : order[i] = tb }

\* C12: the flush order holds every output table exactly once and, for every
\* declared many-to-one relationship, the parent table before the child
\* table (unrelated tables are not constrained).
C12_FlushOrder ==
  Sequenced =>
    /\ \A tb \in DOMAIN tables : Cardinality(PositionsOf(flush_order, tb)) = 1
    /\ \A r \in 1..Len(_relationships) :
         \A i \in PositionsOf(flush_order, _relationships[r].child_table) :
           \A j \in PositionsOf(flush_order, _relationships[r].parent_table) : j < i

\* The child table was declared first and is flushed second.
C12_Witness ==
  /\ phase = "returned"
  /\ _session # "None"
  /\ _emissions[1].table = "posts"
  /\ _relationships # <<>>
  /\ DOMAIN tables = {"users", "posts"}
  /\ tables["users"] # <<>> /\ tables["posts"] # <<>>
  /\ flush_order = <<"users", "posts">>

\* The pairs (child table, parent table) of the declared relationships, and
\* what they give by transitivity.
RelEdges ==
  { <<_relationships[i].child_table, _relationships[i].parent_table>> :
      i \in 1..Len(_relationships) }

RECURSIVE Closure(_)
Closure(E) ==
  LET step == E \cup { <<e[1][1], e[2][2]>> : e \in { p \in E \X E : p[1][2] = p[2][1] } }
  IN  IF step = E THEN E ELSE Closure(step)

Cyclic == \E e \in Closure(RelEdges) : e[1] = e[2]

\* C13: when the relationships over the tables have a cycle, a run with a
\* session reports a cycle error instead of an order, and nothing is
\* persisted: no instance is added and no flush is issued.
C13_CycleAborts ==
  /\ (Cyclic /\ _session # "None") =>
       /\ ~Sequenced
       /\ flush_order = <<>>
       /\ session_log = <<>>
       /\ (phase = "raised" /\ ~fails_fast(_error_mode, errors)) => raised = "CycleError"
  /\ raised = "CycleError" => Cyclic /\ phase = "raised"

\* Both tables have instances and the run ended with a cycle error.
C13_Witness ==
  /\ raised = "CycleError"
  /\ Cyclic
  /\ DOMAIN tables = {"users", "posts"}
  /\ tables["users"] # <<>> /\ tables["posts"] # <<>>
  /\ session_log = <<>>

\* The tables whose instances have been handed to the session so far.
Persisted ==
  SelectSeq(SubSeq(flush_order, 1, IF phase = "bind" THEN fpos ELSE fpos - 1),
            LAMBDA tb : DictHas(tables, tb))

\* Table by table: one add per instance that is not a dict, then one flush.
RECURSIVE ExpectedLog(_)
ExpectedLog(order) ==
  IF order = <<>> THEN <<>>
  ELSE LET objs == SelectSeq(tables[Head(order)], LAMBDA e : e.v.class # "")
       IN  [i \in 1..Len(objs) |-> AddCall(Head(order), objs[i].k)] \o <<FlushCall>>
             \o ExpectedLog(Tail(order))

AddsOf(tb) ==
  { i \in 1..Len(session_log) : session_log[i].op = "add" /\ session_log[i].table = tb }

Flushes == { i \in 1..Len(session_log) : session_log[i].op = "flush" }

\* The child's parent key is resolved and names an instance of the parent
\* table, and both are objects.
Bindable(r, child) ==
  LET key_map == child_to_parent[r]
      parents == tables[rel_specs[r].parent_table]
  IN  /\ child.v.class # ""
      /\ DictHas(tables, rel_specs[r].parent_table)
      /\ ODHas(key_map, child.k)
      /\ ODHas(parents, ODGet(key_map, child.k))
      /\ ODGet(parents, ODGet(key_map, child.k)).class # ""

AttrKey(r, child) == <<rel_specs[r].child_table, child.k, rel_specs[r].attr>>

BuilderErrorKinds == {"unknown_field", "missing_required"}

KeysOf(od) == { od[i].k : i \in 1..Len(od) }

\* The keys of a table the traversal of the root produces.
ProducedKeys(tb) ==
  { KeyOf(items[i]) : i \in { j \in 1..Len(items) : items[j].emit.table = tb /\ Produces(items[j]) } }

\* The keys of a table reported as not finalized.
FailedKeys(tb) ==
  IF DictHas(errors, tb)
  THEN { errors[tb][e].k :
           e \in { d \in 1..Len(errors[tb]) :
                     \E m \in 1..Len(errors[tb][d].v) : errors[tb][d].v[m].kind = "missing_required" } }
  ELSE {}

\* run has built its result.
Converted == phase \in {"check", "add", "bind", "returned"} \/ raised = "CycleError"

\* C16: in collect mode no builder update or finalize error makes run
\* raise; every Context is traversed, the result holds every instance that
\* was built successfully together with the errors by table name and row
\* key, and a table without an error has no entry in the errors.
C16_CollectKeepsGoing ==
  _error_mode = "collect" =>
    /\ raised \in {"", "CycleError"}
    /\ Converted =>
         /\ \A tb \in DOMAIN errors :
              /\ DictHas(tables, tb)
              /\ errors[tb] # <<>>
              /\ \A e \in 1..Len(errors[tb]) : errors[tb][e].v # <<>>
         /\ \A tb \in DOMAIN tables :
              /\ KeysOf(tables[tb]) \cup FailedKeys(tb) = ProducedKeys(tb)
              /\ KeysOf(tables[tb]) \cap FailedKeys(tb) = {}
              /\ \A i \in 1..Len(tables[tb]) :
                   Missing(tables[tb][i].v.class, tables[tb][i].v.data) = {}

\* The first element failed, the one after it was built, and both are in the
\* result.
C16_Witness ==
  /\ _error_mode = "collect"
  /\ phase = "returned"
  /\ Len(items) = 2
  /\ DictHas(errors, "users") /\ DictHas(tables, "users")
  /\ KeyOf(items[1]) \in KeysOf(errors["users"])
  /\ KeyOf(items[2]) \in KeysOf(tables["users"])

\* C17: in global fail-fast mode a builder or validation error makes run
\* raise: it returns no result, and in a run that raises no instance has been
\* added to the session and no flush has been issued.
C17_FailFastAborts ==
  /\ (_error_mode = "fail_fast" /\ errors # <<>>) =>
       /\ phase \in {"check", "raised"}
       /\ phase = "raised" => raised = "ValueError"
  /\ raised = "ValueError" => _error_mode = "fail_fast" /\ errors # <<>> /\ phase = "raised"
  /\ phase = "raised" => session_log = <<>>

\* A session was given, one instance was built and another failed; run
\* raised with the session untouched.
C17_Witness ==
  /\ raised = "ValueError"
  /\ _session # "None"
  /\ DictHas(tables, "users") /\ tables["users"] # <<>>
  /\ DictHas(errors, "users")
  /\ session_log = <<>>

\* C18: an emission declared with errors="fail_fast" makes run raise on an
\* error of that emission whatever the pipeline's global mode is: once the
\* emission's table has an error, run does not go on to persist or return.
C18_EmissionFailFastRaises ==
  \A e \in 1..Len(_emissions) :
    (_emissions[e].errors = "fail_fast" /\ DictHas(errors, _emissions[e].table)) =>
      phase \in {"check", "raised"}

\* The emission has no join_on and no TempField.
Keyless(emission) ==
  /\ emission.join_on = <<>>
  /\ \A i \in 1..Len(emission.fields) : emission.fields[i].kind # "TempField"

ContextsOf(tb) == { i \in 1..Len(items) : items[i].emit.table = tb }

\* C19: a map_to with neither join_on nor a TempField gives one instance per
\* traversed Context, N for N iterated elements and one at the root: the
\* instances built and the keys that failed to build are as many as the
\* Contexts.
C19_KeylessOnePerContext ==
  phase = "returned" =>
    \A e \in 1..Len(_emissions) :
      Keyless(_emissions[e]) =>
        (IF DictHas(tables, _emissions[e].table) THEN Len(tables[_emissions[e].table]) ELSE 0)
          + Cardinality(FailedKeys(_emissions[e].table))
          = Cardinality(ContextsOf(_emissions[e].table))

\* The names in join_on that are Fields of the emission.
JoinOnFields(emission) ==
  { emission.fields[i].name :
      i \in { j \in 1..Len(emission.fields) :
                /\ emission.fields[j].kind = "Field"
                /\ emission.fields[j].name \in Elems(emission.join_on) } }

\* C20: a Field named in join_on is kept among the output fields: every row
\* or instance built for the emission's table holds it.
C20_JoinOnFieldKept ==
  Converted =>
    \A e \in 1..Len(_emissions) :
      DictHas(tables, _emissions[e].table) =>
        \A i \in 1..Len(tables[_emissions[e].table]) :
          \A n \in JoinOnFields(_emissions[e]) :
            DictHas(tables[_emissions[e].table][i].v.data, n)

\* C27: the path of every Context the traversal yields is the absolute path
\* of its node: resolving it against the root gives the node, also under an
\* inner path and for mapping entries.
C27_PathResolvesToNode ==
  \A i \in 1..Len(items) : _resolve_path(root, items[i].ctx.path) = items[i].ctx.node

TempFieldsOf(emission) == SelectSeq(emission.fields, LAMBDA f : f.kind = "TempField")

FieldNamesOf(emission) ==
  { emission.fields[i].name : i \in { j \in 1..Len(emission.fields) : emission.fields[j].kind = "Field" } }

\* The emission has no join_on and at least one TempField.
TempKeyed(emission) == emission.join_on = <<>> /\ TempFieldsOf(emission) # <<>>

\* The TempFields' values at a Context, in declaration order.
TempKey(emission, ctx) ==
  [i \in 1..Len(TempFieldsOf(emission)) |-> Apply(TempFieldsOf(emission)[i].transform, ctx)]

\* The keys the emissions of a table give over the Contexts traversed.
TempKeysOf(tb) ==
  { TempKey(_emissions[items[i].ti], items[i].ctx) :
      i \in { j \in 1..Len(items) : items[j].emit.table = tb } }

TempKeyedTables ==
  { tb \in DOMAIN tables :
      \A e \in 1..Len(_emissions) : _emissions[e].table = tb => TempKeyed(_emissions[e]) }

\* The keys of the table are the TempFields' values in declaration order.
KeysAreTempFields(tb) ==
  KeysOf(tables[tb]) \cup FailedKeys(tb) = { k \in TempKeysOf(tb) : ~KeySkipped(k) }

\* The row holds the executor's own id: the single key part, in a plain row.
InjectedId(row, name) ==
  /\ name = "id"
  /\ row.v.class = ""
  /\ Len(row.k) = 1
  /\ row.v.data["id"] = row.k[1]

ByTransforms(rel) ==
  LET fields == _emissions[rel.emission_index + 1].fields
      found  == SelectSeq(rel.by, LAMBDA e : \E j \in 1..Len(fields) : fields[j].name = e.k)
  IN  [i \in 1..Len(found) |->
         fields[CHOOSE j \in 1..Len(fields) :
                  /\ fields[j].name = found[i].k
                  /\ \A h \in 1..(j - 1) : fields[h].name # found[i].k].transform]

ParentKeyAt(rel, ctx) ==
  [i \in 1..Len(ByTransforms(rel)) |-> Apply(ByTransforms(rel)[i], ctx)]

\* The Contexts that produce a key of the relationship's child table.
ChildItems(rel) ==
  { i \in 1..Len(items) : items[i].emit.table = rel.child_table /\ Produces(items[i]) }

\* C26: there is one child-key to parent-key map per relationship; a child
\* key has an entry exactly when a Context that produces it gives a parent
\* key whose components are all non-null and non-empty, and the entry is
\* that parent key; computing the maps changes no table, instance or
\* accumulator, and with a session binds nothing.
C26_KeyMaps ==
  /\ [](rel_specs # <<>> =>
          /\ Len(child_to_parent) = Len(_relationships)
          /\ \A r \in 1..Len(_relationships) :
               /\ KeysOf(child_to_parent[r])
                    = { KeyOf(items[i]) :
                          i \in { j \in ChildItems(_relationships[r]) :
                                    ~HasNullOrEmptyPart(ParentKeyAt(_relationships[r], items[j].ctx)) } }
               /\ \A e \in 1..Len(child_to_parent[r]) :
                    \E i \in ChildItems(_relationships[r]) :
                      /\ KeyOf(items[i]) = child_to_parent[r][e].k
                      /\ ParentKeyAt(_relationships[r], items[i].ctx) = child_to_parent[r][e].v)
  /\ [][child_to_parent' # child_to_parent =>
          /\ UNCHANGED <<exec, all_raw_results, tables, errors, session_log>>
          /\ _session # "None" => UNCHANGED attrs]_vars

\* One post has a parent key and an entry, another has no user and no entry.
C26_Witness ==
  /\ rel_specs # <<>>
  /\ Len(child_to_parent[1]) = 1
  /\ Cardinality({ KeyOf(items[i]) : i \in ChildItems(_relationships[1]) }) = 2
  /\ attrs = <<>>
  /\ _session # "None"

\* The parent's fields named in by hold the values of the child's parent key.
MatchesBy(rel, parent_key, parent) ==
  /\ Len(parent_key) = Len(rel.by)
  /\ \A j \in 1..Len(rel.by) :
       /\ DictHas(parent.v.data, rel.by[j].v)
       /\ parent.v.data[rel.by[j].v] = parent_key[j]

\* C21: link_to(Parent, by={child_field: parent_field}) binds every child
\* to the parent instance whose parent_field equals the child's child_field,
\* also when parent_field is an ordinary Field and no join key of the parent.
C21_LinkByParentField ==
  phase = "returned" =>
    \A r \in 1..Len(rel_specs) :
      (DictHas(tables, rel_specs[r].child_table) /\ DictHas(tables, rel_specs[r].parent_table)) =>
        \A c \in 1..Len(tables[rel_specs[r].child_table]) :
          \A p \in 1..Len(tables[rel_specs[r].parent_table]) :
            LET child  == tables[rel_specs[r].child_table][c]
                parent == tables[rel_specs[r].parent_table][p]
            IN  (/\ child.v.class # "" /\ parent.v.class # ""
                 /\ ODHas(child_to_parent[r], child.k)
                 /\ MatchesBy(_relationships[r], ODGet(child_to_parent[r], child.k), parent)) =>
                  /\ ODHas(attrs, AttrKey(r, child))
                  /\ ODGet(attrs, AttrKey(r, child)).key = parent.k

(***************************************************************************)
(* Properties of pipelines over several roots and of the chain of calls    *)
(* (RootsSpec).                                                            *)
(***************************************************************************)
RootIndexes == SortedSeq({ _emissions[i].root_index : i \in 1..Len(_emissions) })

\* The (Context, emit) pairs of all the roots, root after root.
AllItems ==
  FlattenSeq([i \in 1..Len(RootIndexes) |->
    ModeLoopItems(_roots[RootIndexes[i] + 1], MappingSpec(SpecsOfRoot(RootIndexes[i])))])

\* The values produced for field f of key k of the table, over all roots.
ValuesAcross(tb, k, f) ==
  LET js == SelectSeq([j \in 1..Len(AllItems) |-> j],
                      LAMBDA j : /\ AllItems[j].emit.table = tb
                                 /\ Declares(AllItems[j].emit, f)
                                 /\ KeyOf(AllItems[j]) = k)
  IN  [i \in 1..Len(js) |-> ValueOf(AllItems[js[i]], f)]

\* The policy the table's emits declare for the field, "" for none.
PolicyAcross(tb, f) ==
  LET ps == { AllItems[j].emit.policies[f] :
                j \in { h \in 1..Len(AllItems) :
                          /\ AllItems[h].emit.table = tb
                          /\ AllItems[h].emit.type = "InstanceEmit"
                          /\ f \in DOMAIN AllItems[h].emit.policies } }
  IN  IF Cardinality(ps) = 1 THEN CHOOSE p \in ps : TRUE ELSE ""

\* C25: updates of one table key coming from different roots accumulate into
\* one instance, a field with a merge policy holding the fold of the policy
\* over the values of all the roots and a field without policy the value
\* from the later root.
C25_PoliciesAcrossRoots ==
  phase = "returned" =>
    \A tb \in DOMAIN tables : \A i \in 1..Len(tables[tb]) :
      \A f \in DOMAIN tables[tb][i].v.data :
        LET vals == ValuesAcross(tb, tables[tb][i].k, f)
        IN  vals # <<>> =>
              tables[tb][i].v.data[f]
                = IF PolicyAcross(tb, f) # ""
                  THEN FoldPolicy(PolicyAcross(tb, f), vals)
                  ELSE vals[Len(vals)]

\* What the specs of the child emission's root yield over the first root.
FirstRootItems(rel) ==
  ModeLoopItems(_roots[1],
                MappingSpec(SpecsOfRoot(_emissions[rel.emission_index + 1].root_index)))

\* The Contexts of the first root that give the child table a key and a
\* parent key.
Resolving(rel) ==
  { i \in 1..Len(FirstRootItems(rel)) :
      /\ FirstRootItems(rel)[i].emit.table = rel.child_table
      /\ Produces(FirstRootItems(rel)[i])
      /\ ~HasNullOrEmptyPart(ParentKeyAt(rel, FirstRootItems(rel)[i].ctx)) }

\* C28: the relationship keys come from traversing roots[0] alone with the
\* specs of every root: whatever root the child emission was declared on,
\* a child key has a parent key exactly when the child emission's path
\* yields it in roots[0], and the parent key is the one computed there.
C28_KeysFromFirstRoot ==
  rel_specs # <<>> =>
    \A r \in 1..Len(_relationships) :
      /\ KeysOf(child_to_parent[r])
           = { KeyOf(FirstRootItems(_relationships[r])[i]) : i \in Resolving(_relationships[r]) }
      /\ \A e \in 1..Len(child_to_parent[r]) :
           \E i \in Resolving(_relationships[r]) :
             /\ KeyOf(FirstRootItems(_relationships[r])[i]) = child_to_parent[r][e].k
             /\ ParentKeyAt(_relationships[r], FirstRootItems(_relationships[r])[i].ctx)
                  = child_to_parent[r][e].v

\* Two posts come from the second root with users 2 and 1; the first root
\* holds only post 10, under user 2: post 10 gets that parent key and post
\* 11 gets none.
C28_Witness ==
  /\ phase = "returned"
  /\ Len(_roots) = 2
  /\ rel_specs # <<>>
  /\ _emissions[_relationships[1].emission_index + 1].root_index = 1
  /\ DictHas(tables, "posts")
  /\ KeysOf(tables["posts"]) = { <<I(11)>>, <<I(10)>> }
  /\ child_to_parent[1] = << [k |-> <<I(10)>>, v |-> <<I(2)>>] >>

\* C23: goto_root(i) with i in range selects root i and empties the path,
\* the iteration depth and the iteration points; out of range it raises
\* IndexError and leaves root index, path, depth, points, emissions and
\* relationships as they were.
C23_GotoRoot ==
  [][Calling("goto_root") =>
       IF 0 <= Call.index /\ Call.index < Len(_roots)
       THEN /\ _current_root_index' = Call.index
            /\ _current_path' = <<>>
            /\ _iteration_depth' = 0
            /\ _iteration_points' = <<>>
            /\ raised' = ""
            /\ UNCHANGED decl
       ELSE /\ raised' = "IndexError"
            /\ UNCHANGED <<nav, decl>>]_vars

\* goto_root(1) on a single root raised, and the builder still stands
\* under the users it had reached.
C23_Witness ==
  /\ raised = "IndexError"
  /\ Len(_roots) = 1
  /\ _current_root_index = 0
  /\ _current_path = Users
  /\ _iteration_depth = 1
  /\ _iteration_points = <<Users>>
  /\ Len(_emissions) = 1

\* C24: link_to attaches the relationship to the most recent map_to, its
\* child table and emission index being those of the last emission whatever
\* navigation happened since; with no map_to before it, it raises ValueError
\* and records nothing.
C24_LinkToLastEmission ==
  [][Calling("link_to") =>
       IF _emissions = <<>>
       THEN /\ raised' = "ValueError"
            /\ UNCHANGED <<nav, decl>>
       ELSE /\ Len(_relationships') = Len(_relationships) + 1
            /\ SubSeq(_relationships', 1, Len(_relationships)) = _relationships
            /\ _relationships'[Len(_relationships')].child_table
                 = _emissions[Len(_emissions)].table
            /\ _relationships'[Len(_relationships')].emission_index = Len(_emissions) - 1
            /\ raised' = ""
            /\ UNCHANGED <<nav, _emissions, _session>>]_vars

\* The link was made two levels below the posts, after users and posts were
\* mapped: it is attached to the posts.
C24_Witness ==
  /\ phase = "build"
  /\ Len(_emissions) = 2
  /\ Len(_relationships) = 1
  /\ _current_path = Posts \o Tags
  /\ _emissions[2].path = Posts
  /\ _relationships[1].child_table = "posts"
  /\ _relationships[1].emission_index = 1

\* C29: in every state of a builder, the iteration depth is the number of
\* recorded iteration points, every iteration point is a prefix of the
\* current path, and the iteration points are in non-decreasing length order.
IsPrefix(p, q) == Len(p) <= Len(q) /\ SubSeq(q, 1, Len(p)) = p

C29_IterationPoints ==
  /\ _iteration_depth = Len(_iteration_points)
  /\ \A i \in 1..Len(_iteration_points) : IsPrefix(_iteration_points[i], _current_path)
  /\ \A i, j \in 1..Len(_iteration_points) :
       i <= j => Len(_iteration_points[i]) <= Len(_iteration_points[j])

\* Two nested iterations were declared, the second one deeper than the
\* first, and emissions and a relationship were recorded meanwhile.
C29_Witness ==
  /\ _iteration_depth = 2
  /\ _iteration_points = <<Posts, Posts \o Tags>>
  /\ _current_path = Posts \o Tags
  /\ Len(_emissions) = 3
  /\ Len(_relationships) = 1

\* C30: map_to records the navigation state of the moment of the call (root
\* index, path, iteration depth, iteration points); no other call changes a
\* recorded emission, and emissions and relationships only grow, by one
\* record at their end, in call order.
C30_EmissionsAppendOnly ==
  [][/\ IF Calling("map_to")
        THEN /\ Len(_emissions') = Len(_emissions) + 1
             /\ SubSeq(_emissions', 1, Len(_emissions)) = _emissions
             /\ _emissions'[Len(_emissions')].root_index = _current_root_index
             /\ _emissions'[Len(_emissions')].path = _current_path
             /\ _emissions'[Len(_emissions')].iteration_depth = _iteration_depth
             /\ _emissions'[Len(_emissions')].iteration_points = _iteration_points
             /\ UNCHANGED nav
        ELSE _emissions' = _emissions
     /\ IF Calling("link_to") /\ _emissions # <<>>
        THEN /\ Len(_relationships') = Len(_relationships) + 1
             /\ SubSeq(_relationships', 1, Len(_relationships)) = _relationships
        ELSE _relationships' = _relationships]_vars

\* The users were mapped under the users; the builder has since moved to the
\* tags of the posts, mapped twice more and linked, gone back to the root and
\* been given a session: the first emission still holds the state of its call.
C30_Witness ==
  /\ Len(_emissions) = 3
  /\ Len(_relationships) = 1
  /\ _session # "None"
  /\ _current_path = <<>>
  /\ _iteration_points = <<>>
  /\ _emissions[1].path = Users
  /\ _emissions[1].iteration_depth = 1
  /\ _emissions[1].iteration_points = <<Users>>
  /\ _emissions[3].path = Posts \o Tags
  /\ _emissions[3].iteration_depth = 2

====
